---- MODULE Spec2Model ----
(***************************************************************************)
(* The organize engine of wrrarms (src/tool/wrrarms/__main__.py): the      *)
(* deferred, batching file-placement pipeline built by make_deferred_emit  *)
(* and make_organize_emit, driven by the walker of cmd_organize.           *)
(*                                                                         *)
(* One action of the model is one whole handler of the program: one step   *)
(* of the walker (load_map_orderly's loop body, with the emit and the      *)
(* flush_updates(False) that ends it), the end of the walk, a signal, and  *)
(* the finish() of cmd_organize's finally block.                           *)
(***************************************************************************)
EXTENDS Integers, Sequences, FiniteSets, TLC

VARIABLES
    cargs,        \* the parsed command line (constant during a run)
    fs,           \* the file system: path -> file or symlink
    nextIno,      \* the next inode number the file system hands out
    seen,         \* seen_counter.state : OrderedDict key -> count
    intents,      \* deferred_intents   : OrderedDict path -> OrganizeIntent
    cache,        \* source_cache       : OrderedDict path -> OrganizeSource
    mem,          \* mem.consumption
    dsync,        \* the DeferredSync log
    stdout,       \* the reporting channel: the paths written to it, in order
    logged,       \* number of records logged with _logging.error
    todo,         \* input paths the walker has not yielded yet
    want_stop,    \* the process-wide stop flag
    should_raise, \* whether sig_handler raises at once
    pc,           \* "walk", "finish" (the finally block is due), "done"
    raised,       \* the exception unwinding out of cmd_organize, or "none"
    events,       \* what the last handler did, in order (history)
    placed        \* records whose emit returned normally: path, data, destination (history)

vars == <<cargs, fs, nextIno, seen, intents, cache, mem, dsync, stdout, logged,
          todo, want_stop, should_raise, pc, raised, events, placed>>

----------------------------------------------------------------------------
(* Bounds of the model *)

\* number of input files the walker is given
NFiles == 4

----------------------------------------------------------------------------
(* Values *)

\* Python's None, and Some(x), for optional values
None == <<>>
Some(x) == <<x>>
IsNone(o) == o = <<>>
The(o) == o[1]

\* Paths are <<root, key, num>>.  The root "in" is the directory of the
\* inputs, "out" the destination directory spelled as an absolute path and
\* "rel" the same directory spelled the way the user gave it, when that is
\* not an absolute path.
DigitsOf(n) == IF n < 10 THEN 1 ELSE IF n < 100 THEN 2 ELSE 3

\* len(path) of the string a path stands for: "/in/<k>.<n>.wrr",
\* "/abs/out/<k>.<n>.wrr" and "out/<k>.<n>.wrr"
PathLen(p) ==
    DigitsOf(p[2]) + DigitsOf(p[3]) +
    (CASE p[1] = "in"  -> 9
       [] p[1] = "out" -> 14
       [] p[1] = "rel" -> 9)

\* os.path.abspath
AbsPath(p) == IF p[1] = "rel" THEN <<"out", p[2], p[3]>> ELSE p

\* output_format % rrexpr, joined to the destination: the template reads the
\* record's key and, when it holds a %(num)d substitution, the num counter
FormatOutput(destination, hasNum, key, num) ==
    <<destination, key, IF hasNum THEN num ELSE 0>>

----------------------------------------------------------------------------
(* collections.OrderedDict as a sequence of [k, v] *)

ODHas(od, k) == \E i \in 1..Len(od) : od[i].k = k
ODIndex(od, k) == CHOOSE i \in 1..Len(od) : od[i].k = k
ODGet(od, k) == od[ODIndex(od, k)].v
ODRemove(od, k) == SelectSeq(od, LAMBDA e : e.k # k)
\* od[k] = v : an existing key keeps its position, a new key goes last
ODSet(od, k, v) ==
    IF ODHas(od, k)
    THEN [od EXCEPT ![ODIndex(od, k)] = [k |-> k, v |-> v]]
    ELSE Append(od, [k |-> k, v |-> v])
ODKeys(od) == {od[i].k : i \in 1..Len(od)}

----------------------------------------------------------------------------
(* The file system *)

\* a regular file: its inode, the device it is on, and its bytes; the bytes
\* of a WRR file determine the fields the template reads (key) and stime
File(ino, dev, data) == [kind |-> "file", ino |-> ino, dev |-> dev, data |-> data]
Link(target) == [kind |-> "link", target |-> target]

Exists(f, p) == p \in DOMAIN f
FsPut(f, p, entry) == [q \in DOMAIN f \cup {p} |-> IF q = p THEN entry ELSE f[q]]
FsDel(f, p) == [q \in DOMAIN f \ {p} |-> f[q]]

\* os.path.realpath for a path that exists: follow symlinks
RECURSIVE RealPath(_, _, _)
RealPath(f, p, fuel) ==
    IF fuel = 0 \/ ~Exists(f, p) \/ f[p].kind # "link" THEN p
    ELSE RealPath(f, f[p].target, fuel - 1)

\* the regular file at a path that is no symlink, or None
FileAt(f, p) == IF Exists(f, p) /\ f[p].kind = "file" THEN Some(f[p]) ELSE None

\* the regular file a path names after following symlinks (open, os.stat),
\* or None (FileNotFoundError)
StatFile(f, p) == FileAt(f, RealPath(f, p, 4))

\* os.stat_result, as far as os.path.samestat reads it
StatOf(file) == [ino |-> file.ino, dev |-> file.dev]
SameStat(s1, s2) == s1.ino = s2.ino /\ s1.dev = s2.dev

\* fileobj_content_equals, for the opened file st (None: FileNotFoundError)
FileobjContentEquals(st, data) == IF IsNone(st) THEN FALSE ELSE The(st).data = data

\* file_content_equals(path, data): a missing file equals nothing
FileContentEquals(f, path, data) == FileobjContentEquals(StatFile(f, path), data)

----------------------------------------------------------------------------
(* make_organize_emit: the action's flags *)

Moving(c) == c.action = "move"
CheckData(c) == c.action # "symlink"
Symlinking(c) == c.action = "symlink"

\* the same, were only `--move` refused together with `--latest`
ConfigRejectedMoveOnly(c) == c.allow_updates /\ c.action = "move"

\* the combinations make_organize_emit refuses
ConfigRejected(c) == c.allow_updates /\ c.action \in {"move", "copy", "hardlink"}

\* cmd_organize without `--to`: cargs.destination is None (here "unset"), and
\* `--latest` is refused
LatestWithoutTo(c) == c.destination = "unset" /\ c.allow_updates

\* cmd_organize without `--to`: each path is its own destination; the
\* command line names the one directory "out"
OwnDestination(c) == IF c.destination = "unset" THEN [c EXCEPT !.destination = "out"] ELSE c

----------------------------------------------------------------------------
(* OrganizeSource and OrganizeIntent *)

OrganizeSource(abs_path, stat_result, stime_maybe) ==
    [abs_path |-> abs_path, stat_result |-> stat_result, stime_maybe |-> stime_maybe]

SourceApproxSize(source) == 128 + PathLen(source.abs_path)

OrganizeIntent(source, exists) == [source |-> source, exists |-> exists]

IntentApproxSize(intent) == 32 + SourceApproxSize(intent.source)

\* the stime parsed from an opened file st (None: the file cannot be opened)
LoadedStime(st) == IF IsNone(st) THEN None ELSE Some(The(st).data.stime)

\* OrganizeSource.get_stime(data): the cached stime, else the stime parsed
\* from data, else the stime parsed from the file at abs_path; None when that
\* file cannot be opened (the OSError escapes)
GetStime(f, source, data) ==
    IF ~IsNone(source.stime_maybe) THEN source.stime_maybe
    ELSE IF ~IsNone(data) THEN Some(The(data).stime)
    ELSE LoadedStime(StatFile(f, source.abs_path))

UpdateResult(source, permitted, adopted, err) ==
    [source |-> source, permitted |-> permitted, adopted |-> adopted, err |-> err]

\* the same, were a source of the same stime to replace the current one
NewestWinsOrEqual(self, new_source, mine, theirs) ==
    IF IsNone(mine) \/ IsNone(theirs)
    THEN UpdateResult(self, FALSE, FALSE, "OSError")
    ELSE IF The(mine) <= The(theirs)
         THEN UpdateResult(new_source, TRUE, TRUE, "none")
         ELSE UpdateResult([self EXCEPT !.stime_maybe = mine], TRUE, FALSE, "none")

\* update_from: `if self.source.get_stime(disk_data) < new_source.get_stime()`,
\* for the two stimes; get_stime caches the stime in self.source
NewestWins(self, new_source, mine, theirs) ==
    IF IsNone(mine) \/ IsNone(theirs)
    THEN UpdateResult(self, FALSE, FALSE, "OSError")
    ELSE IF The(mine) < The(theirs)
         THEN UpdateResult(new_source, TRUE, TRUE, "none")
         ELSE UpdateResult([self EXCEPT !.stime_maybe = mine], TRUE, FALSE, "none")

\* update_from from `if not allow_updates` on
RefusedUnlessAllowed(c, self, new_source, f, disk_data) ==
    IF ~c.allow_updates THEN UpdateResult(self, FALSE, FALSE, "none")
    ELSE NewestWins(self, new_source,
                    GetStime(f, self, disk_data), GetStime(f, new_source, None))

\* update_from: the comparison with the bytes at self.source.abs_path, st
\* being the file open() found there (None: FileNotFoundError escapes)
CompareData(c, f, self, new_source, st) ==
    IF IsNone(st)
    THEN UpdateResult(self, FALSE, FALSE, "OSError")
    ELSE IF FileContentEquals(f, new_source.abs_path, The(st).data)
         THEN UpdateResult(self, TRUE, FALSE, "none")
         ELSE RefusedUnlessAllowed(c, self, new_source, f, Some(The(st).data))

\* OrganizeIntent.update_from, for an intent whose source is `self`
UpdateFrom(c, f, self, new_source) ==
    IF Symlinking(c) /\ self.abs_path = new_source.abs_path
    THEN UpdateResult(self, TRUE, FALSE, "none")
    ELSE IF ~CheckData(c)
    THEN RefusedUnlessAllowed(c, self, new_source, f, None)
    ELSE IF SameStat(self.stat_result, new_source.stat_result)
    THEN UpdateResult(self, TRUE, FALSE, "none")
    ELSE CompareData(c, f, self, new_source, StatFile(f, self.abs_path))

DeferResult(intent, source, permitted, err) ==
    [intent |-> intent, source |-> source, permitted |-> permitted, err |-> err]

\* defer: "check the result", were every permitted update to generate a
\* replace, as the permitted moves do
DeferCheckedAlways(c, new_source, u) ==
    IF u.err # "none" THEN DeferResult(None, None, FALSE, u.err)
    ELSE IF u.permitted
    THEN DeferResult(Some(OrganizeIntent(new_source, TRUE)), Some(new_source), TRUE, "none")
    ELSE DeferResult(None, Some(u.source), u.permitted, "none")

\* defer: "check the result" u of intent.update_from(new_source)
DeferChecked(c, new_source, u) ==
    IF u.err # "none" THEN DeferResult(None, None, FALSE, u.err)
    ELSE IF Moving(c) /\ u.permitted
    THEN DeferResult(Some(OrganizeIntent(new_source, TRUE)), Some(new_source), TRUE, "none")
    ELSE IF ~u.adopted
    THEN DeferResult(None, Some(u.source), u.permitted, "none")
    ELSE DeferResult(Some(OrganizeIntent(u.source, TRUE)), Some(u.source), u.permitted, "none")

\* defer from "re-create an intent for the target as if it was generated from
\* old_source" on
DeferExisting(c, f, old_source, new_source) ==
    DeferChecked(c, new_source, UpdateFrom(c, f, old_source, new_source))

\* the same, were a target of the other kind treated as one of the action's
DeferOnDiskAnyKind(c, f, abs_out_path, new_source) ==
    IF f[abs_out_path].kind = "link"
    THEN IF IsNone(StatFile(f, abs_out_path))
         THEN DeferResult(Some(OrganizeIntent(new_source, TRUE)), Some(new_source), TRUE, "none")
         ELSE DeferExisting(c, f,
                  OrganizeSource(RealPath(f, abs_out_path, 4),
                                 StatOf(The(StatFile(f, abs_out_path))), None),
                  new_source)
    ELSE DeferExisting(c, f,
             OrganizeSource(abs_out_path, StatOf(f[abs_out_path]), None), new_source)

\* defer: the target exists (lstat succeeded) and no old_source is cached
DeferOnDisk(c, f, abs_out_path, new_source) ==
    IF f[abs_out_path].kind = "link"
    THEN IF IsNone(StatFile(f, abs_out_path))
         THEN DeferResult(Some(OrganizeIntent(new_source, TRUE)), Some(new_source), TRUE, "none")
         ELSE IF ~Symlinking(c)
              THEN DeferResult(None, None, FALSE, "Failure")
              ELSE DeferExisting(c, f,
                       OrganizeSource(RealPath(f, abs_out_path, 4),
                                      StatOf(The(StatFile(f, abs_out_path))), None),
                       new_source)
    ELSE IF Symlinking(c)
    THEN DeferResult(None, None, FALSE, "Failure")
    ELSE DeferExisting(c, f,
             OrganizeSource(abs_out_path, StatOf(f[abs_out_path]), None), new_source)

\* OrganizeIntent.defer, were it not to skip a source that lies at its
\* destination
DeferElsewhere(c, f, abs_out_path, old_source, new_source) ==
    IF ~IsNone(old_source)
    THEN DeferExisting(c, f, The(old_source), new_source)
    ELSE IF ~Exists(f, abs_out_path)
    THEN DeferResult(Some(OrganizeIntent(new_source, FALSE)), Some(new_source), TRUE, "none")
    ELSE DeferOnDisk(c, f, abs_out_path, new_source)

\* OrganizeIntent.defer
Defer(c, f, abs_out_path, old_source, new_source) ==
    IF new_source.abs_path = abs_out_path
    THEN DeferResult(None, old_source, TRUE, "none")
    ELSE IF ~IsNone(old_source)
    THEN DeferExisting(c, f, The(old_source), new_source)
    ELSE IF ~Exists(f, abs_out_path)
    THEN DeferResult(Some(OrganizeIntent(new_source, FALSE)), Some(new_source), TRUE, "none")
    ELSE DeferOnDisk(c, f, abs_out_path, new_source)

----------------------------------------------------------------------------
(* The engine built by make_deferred_emit.  An engine state e holds the     *)
(* fields fs, nextIno, seen, intents, cache, mem, dsync, stdout, logged and *)
(* events; the operators below return the state after the code ran.  Its   *)
(* field calls counts the file system calls the engine made on the way:     *)
(* the lstat and stat of defer, the files update_from and get_stime open,   *)
(* and the placements of run.                                               *)

Engine(f, n, s, i, ca, m, d, o, l, ev) ==
    [fs |-> f, nextIno |-> n, seen |-> s, intents |-> i, cache |-> ca, mem |-> m,
     dsync |-> d, stdout |-> o, logged |-> l, events |-> ev, calls |-> 0]

Called(e, n) == [e EXCEPT !.calls = @ + n]

\* get_stime: the files it opens (wrr_loadf_expr), none when the stime is
\* cached or parsed from data
GetStimeCalls(source, data) ==
    IF ~IsNone(source.stime_maybe) \/ ~IsNone(data) THEN 0 ELSE 1

\* update_from from `if not allow_updates` on: the files it opens
RefusedUnlessAllowedCalls(c, self, new_source, f, disk_data) ==
    IF ~c.allow_updates THEN 0
    ELSE IF IsNone(GetStime(f, self, disk_data)) THEN GetStimeCalls(self, disk_data)
    ELSE GetStimeCalls(self, disk_data) + GetStimeCalls(new_source, None)

\* update_from, the comparison of the bytes: the open of self.source.abs_path
\* and, when it succeeds, the open of file_content_equals
CompareDataCalls(c, f, self, new_source, st) ==
    IF IsNone(st) THEN 1
    ELSE IF FileContentEquals(f, new_source.abs_path, The(st).data) THEN 2
    ELSE 2 + RefusedUnlessAllowedCalls(c, self, new_source, f, Some(The(st).data))

\* OrganizeIntent.update_from: the files it opens
UpdateFromCalls(c, f, self, new_source) ==
    IF Symlinking(c) /\ self.abs_path = new_source.abs_path THEN 0
    ELSE IF ~CheckData(c) THEN RefusedUnlessAllowedCalls(c, self, new_source, f, None)
    ELSE IF SameStat(self.stat_result, new_source.stat_result) THEN 0
    ELSE CompareDataCalls(c, f, self, new_source, StatFile(f, self.abs_path))

\* defer once lstat found the target: the stat of a symlink, and the calls
\* of update_from
DeferOnDiskCalls(c, f, abs_out_path, new_source) ==
    IF f[abs_out_path].kind = "link"
    THEN IF IsNone(StatFile(f, abs_out_path)) \/ ~Symlinking(c) THEN 1
         ELSE 1 + UpdateFromCalls(c, f,
                      OrganizeSource(RealPath(f, abs_out_path, 4),
                                     StatOf(The(StatFile(f, abs_out_path))), None),
                      new_source)
    ELSE IF Symlinking(c) THEN 0
    ELSE UpdateFromCalls(c, f,
             OrganizeSource(abs_out_path, StatOf(f[abs_out_path]), None), new_source)

\* OrganizeIntent.defer: its lstat, and what follows it
DeferCalls(c, f, abs_out_path, old_source, new_source) ==
    IF new_source.abs_path = abs_out_path THEN 0
    ELSE IF ~IsNone(old_source) THEN UpdateFromCalls(c, f, The(old_source), new_source)
    ELSE IF ~Exists(f, abs_out_path) THEN 1
    ELSE 1 + DeferOnDiskCalls(c, f, abs_out_path, new_source)

\* SeenCounter.count, were it to hand out 0 every time
SeenCountStuck(e, value) ==
    IF ODHas(e.seen, value)
    THEN [e |-> e, count |-> 0]
    ELSE [e |-> [e EXCEPT !.seen = ODSet(@, value, 0), !.mem = @ + PathLen(value)],
          count |-> 0]

\* SeenCounter.count
SeenCount(e, value) ==
    IF ODHas(e.seen, value)
    THEN [e |-> [e EXCEPT !.seen = ODSet(@, value, ODGet(e.seen, value) + 1)],
          count |-> ODGet(e.seen, value) + 1]
    ELSE [e |-> [e EXCEPT !.seen = ODSet(@, value, 0), !.mem = @ + PathLen(value)],
          count |-> 0]

\* SeenCounter.pop
SeenPop(e) ==
    [e |-> [e EXCEPT !.seen = Tail(@), !.mem = @ - PathLen(Head(e.seen).k)],
     abs_out_path |-> Head(e.seen).k]

\* the same, were the popped entry left in the account
CachePopUncharged(e, abs_out_path) ==
    IF ODHas(e.cache, abs_out_path)
    THEN [e |-> [e EXCEPT !.cache = ODRemove(@, abs_out_path)],
          old_source |-> Some(ODGet(e.cache, abs_out_path))]
    ELSE [e |-> e, old_source |-> None]

\* emit: old_source = source_cache.pop(abs_out_path), with its accounting
CachePop(e, abs_out_path) ==
    IF ODHas(e.cache, abs_out_path)
    THEN [e |-> [e EXCEPT !.cache = ODRemove(@, abs_out_path),
                          !.mem = @ - (SourceApproxSize(ODGet(e.cache, abs_out_path))
                                       + PathLen(abs_out_path))],
          old_source |-> Some(ODGet(e.cache, abs_out_path))]
    ELSE [e |-> e, old_source |-> None]

\* the same, were the intent to go to the front of the queue
IntentPutFirst(e, abs_out_path, intent) ==
    IF IsNone(intent) THEN e
    ELSE [e EXCEPT !.intents = <<[k |-> abs_out_path, v |-> The(intent)]>>
                                  \o ODRemove(@, abs_out_path),
                   !.mem = @ + IntentApproxSize(The(intent)) + PathLen(abs_out_path)]

\* emit: deferred_intents[abs_out_path] = intent, with its accounting
IntentPut(e, abs_out_path, intent) ==
    IF IsNone(intent) THEN e
    ELSE [e EXCEPT !.intents = ODSet(@, abs_out_path, The(intent)),
                   !.mem = @ + IntentApproxSize(The(intent)) + PathLen(abs_out_path)]

\* the same, were the accounting to leave out len(abs_out_path)
CachePutBare(e, abs_out_path, updated_source) ==
    IF IsNone(updated_source) THEN e
    ELSE [e EXCEPT !.cache = ODSet(@, abs_out_path, The(updated_source)),
                   !.mem = @ + SourceApproxSize(The(updated_source))]

\* emit: source_cache[abs_out_path] = updated_source, with its accounting
CachePut(e, abs_out_path, updated_source) ==
    IF IsNone(updated_source) THEN e
    ELSE [e EXCEPT !.cache = ODSet(@, abs_out_path, The(updated_source)),
                   !.mem = @ + SourceApproxSize(The(updated_source)) + PathLen(abs_out_path)]

\* emit: intent = deferred_intents.pop(abs_out_path), with its accounting
IntentPop(e, abs_out_path) ==
    [e EXCEPT !.intents = ODRemove(@, abs_out_path),
              !.mem = @ - (IntentApproxSize(ODGet(e.intents, abs_out_path))
                           + PathLen(abs_out_path))]

\* emit: the popped intent after intent.update_from(new_source) returned u
Updated(intent, u) ==
    DeferResult(Some([intent EXCEPT !.source = u.source]), Some(u.source), u.permitted, u.err)

\* emit: the intent to go on with, either popped from deferred_intents and
\* updated with update_from or made by defer
TakeIntent(c, e, abs_out_path, old_source, new_source) ==
    IF ODHas(e.intents, abs_out_path)
    THEN [e |-> Called(IntentPop(e, abs_out_path),
                       UpdateFromCalls(c, e.fs, ODGet(e.intents, abs_out_path).source,
                                       new_source)),
          d |-> Updated(ODGet(e.intents, abs_out_path),
                        UpdateFrom(c, e.fs, ODGet(e.intents, abs_out_path).source, new_source))]
    ELSE [e |-> Called(e, DeferCalls(c, e.fs, abs_out_path, old_source, new_source)),
          d |-> Defer(c, e.fs, abs_out_path, old_source, new_source)]

EmitResult(e, status, intent, abs_out_path, permitted) ==
    [e |-> e, status |-> status, intent |-> intent, abs_out_path |-> abs_out_path,
     permitted |-> permitted]

RECURSIVE EmitLoop(_, _, _, _, _, _)

\* emit's loop after the intent and the updated source went back into their
\* queues (state e): break, fail with "destination already exists" and
\* variance_help (the event "variance"), or go round again
EmitDecide(c, e, d, rel_out_path, new_source, key, ogprefix, prev) ==
    IF d.permitted
    THEN EmitResult(e, "ok", d.intent, AbsPath(rel_out_path), TRUE)
    ELSE IF prev = Some(rel_out_path)
    THEN EmitResult([e EXCEPT !.events = Append(@, <<"variance", AbsPath(rel_out_path)>>)],
                    "Failure", d.intent, AbsPath(rel_out_path), FALSE)
    ELSE EmitLoop(c, e, new_source, key, ogprefix, Some(rel_out_path))

\* emit's loop once defer or update_from returned (ti)
EmitTaken(c, ti, rel_out_path, new_source, key, ogprefix, prev) ==
    IF ti.d.err # "none"
    THEN EmitResult(ti.e, ti.d.err, None, AbsPath(rel_out_path), FALSE)
    ELSE EmitDecide(c,
             CachePut(IntentPut(ti.e, AbsPath(rel_out_path), ti.d.intent),
                      AbsPath(rel_out_path), ti.d.source),
             ti.d, rel_out_path, new_source, key, ogprefix, prev)

\* emit's loop once old_source was popped from source_cache (cp)
EmitPopped(c, cp, rel_out_path, new_source, key, ogprefix, prev) ==
    EmitTaken(c, TakeIntent(c, cp.e, AbsPath(rel_out_path), cp.old_source, new_source),
              rel_out_path, new_source, key, ogprefix, prev)

\* emit's loop once seen_counter.count(ogprefix) returned (sc)
EmitCounted(c, sc, new_source, key, ogprefix, prev) ==
    EmitPopped(c,
        CachePop(sc.e, AbsPath(FormatOutput(c.destination, c.hasNum, key, sc.count))),
        FormatOutput(c.destination, c.hasNum, key, sc.count),
        new_source, key, ogprefix, prev)

\* emit: the `while True` loop.  prev is prev_rel_out_path.
EmitLoop(c, e, new_source, key, ogprefix, prev) ==
    EmitCounted(c, SeenCount(e, ogprefix), new_source, key, ogprefix, prev)

----------------------------------------------------------------------------
(* The file operations of the .io module and the DeferredSync log.  The     *)
(* module is not part of src/; these follow the specification's sections    *)
(* 4.D and 4.G: the syscall is rename, linkat, symlinkat or copyfile, a     *)
(* move across devices is a copy with the unlink of the source scheduled    *)
(* for finish(), and the fsyncs are queued for sync().                      *)

\* the device of the destination directory
DestDev == 0

EmptySync == [files |-> <<>>, unlinks |-> <<>>]

OpResult(e, err) == [e |-> e, err |-> err]

\* the destination is in place: queue its fsyncs
OpDone(e, dst_path) == OpResult([e EXCEPT !.dsync.files = Append(@, dst_path)], "none")

\* the same, were a move across devices to fail the way a hardlink does
ActionOnFileNoDowngrade(action, e, src_path, dst_path, st) ==
    IF IsNone(st) THEN OpResult(e, "FileNotFoundError")
    ELSE IF action \in {"hardlink", "move"} /\ The(st).dev # DestDev
    THEN OpResult(e, "EXDEV")
    ELSE IF action = "hardlink"
    THEN OpDone([e EXCEPT !.fs = FsPut(@, dst_path, The(st))], dst_path)
    ELSE IF action = "copy"
    THEN OpDone([e EXCEPT !.fs = FsPut(@, dst_path, File(e.nextIno, DestDev, The(st).data)),
                          !.nextIno = @ + 1],
                dst_path)
    ELSE OpDone([e EXCEPT !.fs = FsPut(FsDel(@, src_path), dst_path, The(st))], dst_path)

\* atomic_move, atomic_copy2 and atomic_link once the source was stat'ed (st)
ActionOnFile(action, e, src_path, dst_path, st) ==
    IF IsNone(st) THEN OpResult(e, "FileNotFoundError")
    ELSE IF action = "hardlink"
    THEN IF The(st).dev # DestDev
         THEN OpResult(e, "EXDEV")
         ELSE OpDone([e EXCEPT !.fs = FsPut(@, dst_path, The(st))], dst_path)
    ELSE IF action = "copy" \/ The(st).dev # DestDev
    THEN OpDone([e EXCEPT !.fs = FsPut(@, dst_path, File(e.nextIno, DestDev, The(st).data)),
                          !.nextIno = @ + 1,
                          !.dsync.unlinks = IF action = "move" THEN Append(@, src_path) ELSE @],
                dst_path)
    ELSE OpDone([e EXCEPT !.fs = FsPut(FsDel(@, src_path), dst_path, The(st))], dst_path)

\* atomic_move, atomic_copy2, atomic_link and atomic_symlink
ActionOp(action, e, src_path, dst_path, allow_overwrites) ==
    IF Exists(e.fs, dst_path) /\ ~allow_overwrites
    THEN OpResult(e, "FileExistsError")
    ELSE IF action = "symlink"
    THEN OpDone([e EXCEPT !.fs = FsPut(@, dst_path, Link(src_path))], dst_path)
    ELSE ActionOnFile(action, e, src_path, dst_path, FileAt(e.fs, src_path))

\* DeferredSync.sync: the queued fsyncs
DsyncSync(e) ==
    [e EXCEPT !.events = @ \o [i \in 1..Len(e.dsync.files) |-> <<"fsync", e.dsync.files[i]>>],
              !.dsync.files = <<>>]

RECURSIVE UnlinkAll(_, _)
UnlinkAll(f, paths) ==
    IF paths = <<>> THEN f
    ELSE UnlinkAll(IF Exists(f, Head(paths)) THEN FsDel(f, Head(paths)) ELSE f, Tail(paths))

\* DeferredSync.finish: the queued unlinks
DsyncFinish(e) ==
    [e EXCEPT !.fs = UnlinkAll(@, e.dsync.unlinks),
              !.events = @ \o [i \in 1..Len(e.dsync.unlinks) |-> <<"unlink", e.dsync.unlinks[i]>>],
              !.dsync.unlinks = <<>>]

----------------------------------------------------------------------------
(* OrganizeIntent.run and flush_updates *)

\* OrganizeIntent.run: the exception action_op's outcome becomes
RunResult(r) ==
    IF r.err \in {"FileExistsError", "EXDEV"} THEN OpResult(r.e, "Failure")
    ELSE IF r.err # "none" THEN OpResult(r.e, "OSError")
    ELSE r

\* OrganizeIntent.run, were it to do the syscall in a dry run too
RunForReal(c, e, abs_out_path, intent) ==
    IF intent.source.abs_path = abs_out_path THEN OpResult(e, "AssertionError")
    ELSE RunResult(ActionOp(c.action, Called(e, 1), intent.source.abs_path, abs_out_path,
                            intent.exists))

\* OrganizeIntent.run: err is "none" (it returns self.source), "Failure",
\* "OSError" or "AssertionError"
Run(c, e, abs_out_path, intent) ==
    IF intent.source.abs_path = abs_out_path THEN OpResult(e, "AssertionError")
    ELSE IF c.dry_run THEN OpResult(e, "none")
    ELSE RunResult(ActionOp(c.action, Called(e, 1), intent.source.abs_path, abs_out_path,
                            intent.exists))

\* The state of one flush_updates call: its engine state, done_files, the
\* exception that ended it ("ok" while none did), and its local counters.
FlushState(e, done_files, status, num_seen, num_deferred) ==
    [e |-> e, done_files |-> done_files, status |-> status,
     num_seen |-> num_seen, num_deferred |-> num_deferred]

\* complete_intent: source_cache[abs_out_path] = updated_source
CacheReplace(e, abs_out_path, updated_source) ==
    CachePut(CachePop(e, abs_out_path).e, abs_out_path, Some(updated_source))

\* a Failure was raised for abs_out_path: the history keeps where
Failed(e, where, abs_out_path) == [e EXCEPT !.events = Append(@, <<where, abs_out_path>>)]

\* complete_intent once intent.run returned or raised (r)
Completed(c, st, abs_out_path, intent, r) ==
    IF r.err = "Failure"
    THEN IF c.errors = "ignore" THEN [st EXCEPT !.e = Failed(r.e, "run failed", abs_out_path)]
         ELSE IF c.errors # "fail"
         THEN [st EXCEPT !.e = [Failed(r.e, "run failed", abs_out_path) EXCEPT !.logged = @ + 1]]
         ELSE [st EXCEPT !.e = Failed(r.e, "run failed", abs_out_path),
                         !.status = "CatastrophicFailure"]
    ELSE IF r.err # "none" THEN [st EXCEPT !.e = r.e, !.status = r.err]
    ELSE [st EXCEPT
             !.e = CacheReplace([r.e EXCEPT !.events = Append(@, <<"run", abs_out_path>>)],
                                abs_out_path, intent.source),
             !.done_files = IF IsNone(c.terminator) THEN @ ELSE Append(@, abs_out_path)]

\* complete_intent, were it to drop the intent without running it
CompleteIntentDropped(c, st, abs_out_path, intent) ==
    [st EXCEPT !.e.mem = @ - (IntentApproxSize(intent) + PathLen(abs_out_path))]

\* complete_intent
CompleteIntent(c, st, abs_out_path, intent) ==
    Completed(c, st, abs_out_path, intent,
              Run(c, [st.e EXCEPT !.mem = @ - (IntentApproxSize(intent) + PathLen(abs_out_path))],
                  abs_out_path, intent))

\* the `num_deferred -= 1` after a complete_intent that returned
Counted(st) == IF st.status = "ok" THEN [st EXCEPT !.num_deferred = @ - 1] ELSE st

RECURSIVE FlushSeen(_, _, _, _)

\* flush_updates, "flush seen cache": the loop body once seen_counter.pop()
\* returned (sp)
FlushSeenPopped(c, st, sp, max_seen, max_memory) ==
    IF ODHas(sp.e.intents, sp.abs_out_path)
    THEN FlushSeen(c,
             Counted(CompleteIntent(c,
                 [st EXCEPT !.e = [sp.e EXCEPT !.intents = ODRemove(@, sp.abs_out_path)],
                            !.num_seen = @ - 1],
                 sp.abs_out_path, ODGet(sp.e.intents, sp.abs_out_path))),
             max_seen, max_memory)
    ELSE FlushSeen(c, [st EXCEPT !.e = sp.e, !.num_seen = @ - 1], max_seen, max_memory)

\* flush_updates, "flush seen cache"
FlushSeen(c, st, max_seen, max_memory) ==
    IF st.status = "ok" /\ st.num_seen > 0
       /\ (st.num_seen > max_seen \/ st.e.mem > max_memory)
    THEN FlushSeenPopped(c, st, SeenPop(st.e), max_seen, max_memory)
    ELSE st

RECURSIVE FlushDeferred(_, _, _, _)

\* flush_updates, "flush deferred_intents": the loop, were it to obey the
\* number of intents only
FlushDeferredByNumber(c, st, max_deferred, max_memory) ==
    IF st.status = "ok" /\ st.num_deferred > 0 /\ st.num_deferred > max_deferred
    THEN FlushDeferred(c,
             Counted(CompleteIntent(c, [st EXCEPT !.e.intents = Tail(@)],
                                    Head(st.e.intents).k, Head(st.e.intents).v)),
             max_deferred, max_memory)
    ELSE st

\* flush_updates, "flush deferred_intents": the loop
FlushDeferred(c, st, max_deferred, max_memory) ==
    IF st.status = "ok" /\ st.num_deferred > 0
       /\ (st.num_deferred > max_deferred \/ st.e.mem > max_memory)
    THEN FlushDeferred(c,
             Counted(CompleteIntent(c, [st EXCEPT !.e.intents = Tail(@)],
                                    Head(st.e.intents).k, Head(st.e.intents).v)),
             max_deferred, max_memory)
    ELSE st

\* flush_updates, "flush source_cache".  num_cached is the length the cache
\* had when the flush began.
RECURSIVE FlushCache(_, _, _, _)
FlushCache(e, num_cached, max_cached, max_memory) ==
    IF num_cached > 0 /\ (num_cached > max_cached \/ e.mem > max_memory)
    THEN FlushCache([e EXCEPT !.cache = Tail(@),
                              !.mem = @ - (SourceApproxSize(Head(e.cache).v)
                                           + PathLen(Head(e.cache).k))],
                    num_cached - 1, max_cached, max_memory)
    ELSE e

\* flush_updates, "report to stdout"
Report(e, done_files) ==
    [e EXCEPT !.stdout = @ \o done_files,
              !.events = @ \o [i \in 1..Len(done_files) |-> <<"report", done_files[i]>>]]

\* flush_updates: max_memory
MaxMemory(c, final) == IF final THEN 0 ELSE c.max_memory * 1024 * 1024

\* flush_updates: max_deferred, were there no grace margin
MaxDeferredNoGrace(c, final, num_deferred, consumption) ==
    IF final THEN 0 ELSE c.max_deferred

\* flush_updates: max_deferred, after the grace margin of max_batched
MaxDeferred(c, final, num_deferred, consumption) ==
    IF final THEN 0
    ELSE IF num_deferred <= c.max_deferred + c.max_batched /\ consumption <= MaxMemory(c, final)
    THEN c.max_deferred + c.max_batched
    ELSE c.max_deferred

\* flush_updates: the early return
WithinBudgets(c, e, final) ==
    /\ Len(e.intents) <= (IF final THEN 0 ELSE c.max_deferred)
    /\ Len(e.cache) <= c.max_cached
    /\ Len(e.seen) <= c.max_seen
    /\ e.mem <= MaxMemory(c, final)

FlushResult(e, status) == [e |-> e, status |-> status]

\* flush_updates from dsync.sync() on, were it to finish, report and sync in
\* the opposite order
FlushTailReversed(c, st, num_cached, final) ==
    IF st.status # "ok" THEN FlushResult(st.e, st.status)
    ELSE FlushResult(FlushCache(DsyncSync(Report(DsyncFinish(st.e), st.done_files)),
                                num_cached, c.max_cached, MaxMemory(c, final)),
                     "ok")

\* flush_updates from dsync.sync() on; an exception of complete_intent (st.status)
\* leaves the function before it
FlushTail(c, st, num_cached, final) ==
    IF st.status # "ok" THEN FlushResult(st.e, st.status)
    ELSE FlushResult(FlushCache(DsyncFinish(Report(DsyncSync(st.e), st.done_files)),
                                num_cached, c.max_cached, MaxMemory(c, final)),
                     "ok")

\* flush_updates from "flush deferred_intents" on
FlushAfterSeen(c, st, num_cached, final) ==
    FlushTail(c,
        FlushDeferred(c, st, MaxDeferred(c, final, st.num_deferred, st.e.mem),
                      MaxMemory(c, final)),
        num_cached, final)

\* flush_updates, were every flush a final one
FlushUpdatesAsFinal(c, e, final) ==
    IF WithinBudgets(c, e, TRUE) THEN FlushResult(e, "ok")
    ELSE FlushAfterSeen(c,
             FlushSeen(c, FlushState(e, <<>>, "ok", Len(e.seen), Len(e.intents)),
                       c.max_seen, MaxMemory(c, TRUE)),
             Len(e.cache), TRUE)

\* flush_updates
FlushUpdates(c, e, final) ==
    IF WithinBudgets(c, e, final) THEN FlushResult(e, "ok")
    ELSE FlushAfterSeen(c,
             FlushSeen(c, FlushState(e, <<>>, "ok", Len(e.seen), Len(e.intents)),
                       c.max_seen, MaxMemory(c, final)),
             Len(e.cache), final)

\* finish_updates: the assertion on what flush_updates(True) left (r)
Asserted(r) ==
    IF r.status = "ok" /\ r.e.mem # 0 THEN FlushResult(r.e, "AssertionError") ELSE r

\* finish_updates, were the finally block not to flush
FinishUpdatesSkipped(c, e) == FlushResult(e, "ok")

\* finish_updates
FinishUpdates(c, e) == Asserted(FlushUpdates(c, e, TRUE))

\* emit, after its loop: the flush_updates(False) of a non-lazy run
EmitFlushed(l, r) == [l EXCEPT !.e = r.e, !.status = r.status]

\* emit, after its loop (l), were it to flush in lazy mode too
EmitDoneEager(c, l) ==
    IF l.status # "ok" THEN l
    ELSE EmitFlushed(l,
             FlushUpdates(c,
                 [l.e EXCEPT !.stdout = IF IsNone(l.intent) /\ ~IsNone(c.terminator)
                                        THEN Append(@, l.abs_out_path) ELSE @],
                 FALSE))

\* emit, after its loop (l): the report of a noop and the flush
EmitDone(c, l) ==
    IF l.status # "ok" THEN l
    ELSE IF c.lazy
    THEN [l EXCEPT !.e.stdout = IF IsNone(l.intent) /\ ~IsNone(c.terminator)
                                THEN Append(@, l.abs_out_path) ELSE @]
    ELSE EmitFlushed(l,
             FlushUpdates(c,
                 [l.e EXCEPT !.stdout = IF IsNone(l.intent) /\ ~IsNone(c.terminator)
                                        THEN Append(@, l.abs_out_path) ELSE @],
                 FALSE))

\* emit of make_deferred_emit, called by make_organize_emit's emit with
\* the OrganizeSource of the input and its parsed record (data)
Emit(c, e, new_source, data) ==
    EmitDone(c, EmitLoop(c, e, new_source, data.key,
                         FormatOutput(c.destination, c.hasNum, data.key, 0), None))

----------------------------------------------------------------------------
(* cmd_organize with --to: the walk, the signal handler, the finally block *)

Current ==
    Engine(fs, nextIno, seen, intents, cache, mem, dsync, stdout, logged, <<>>)

Becomes(e) ==
    /\ fs' = e.fs
    /\ nextIno' = e.nextIno
    /\ seen' = e.seen
    /\ intents' = e.intents
    /\ cache' = e.cache
    /\ mem' = e.mem
    /\ dsync' = e.dsync
    /\ stdout' = e.stdout
    /\ logged' = e.logged
    /\ events' = e.events

\* elaborate_output (cmd_organize's defaults for the walk order are part of
\* the configurations of Init)
ElaborateOutput(c) == [c EXCEPT !.terminator = IF c.dry_run THEN None ELSE @]

\* cmd_organize up to the walk: elaborate_output, make_organize_emit, and
\* map_wrr_paths_extra's should_raise = False
Start ==
    /\ pc = "start"
    /\ cargs' = OwnDestination(ElaborateOutput(cargs))
    /\ IF LatestWithoutTo(cargs) \/ ConfigRejected(cargs)
       THEN pc' = "done" /\ raised' = "Failure" /\ UNCHANGED should_raise
       ELSE pc' = "walk" /\ raised' = "none" /\ should_raise' = FALSE
    /\ events' = <<>>
    /\ UNCHANGED <<fs, nextIno, seen, intents, cache, mem, dsync, stdout, logged,
                   todo, want_stop, placed>>

\* load_map_orderly's `except Failure`, were it to re-raise under every policy
WalkerRaises(c, r) ==
    IF r.status = "Failure"
    THEN [e |-> Failed(r.e, "emit failed", r.abs_out_path), raised |-> "Failure"]
    ELSE [e |-> r.e, raised |-> IF r.status = "ok" THEN "none" ELSE r.status]

\* load_map_orderly's `except Failure`: what the walker does with the status
\* of one record
WalkerHandles(c, r) ==
    IF r.status = "Failure"
    THEN IF c.errors = "ignore"
         THEN [e |-> Failed(r.e, "emit failed", r.abs_out_path), raised |-> "none"]
         ELSE IF c.errors # "fail"
         THEN [e |-> [Failed(r.e, "emit failed", r.abs_out_path) EXCEPT !.logged = @ + 1],
               raised |-> "none"]
         ELSE [e |-> Failed(r.e, "emit failed", r.abs_out_path), raised |-> "Failure"]
    ELSE [e |-> r.e, raised |-> IF r.status = "ok" THEN "none" ELSE r.status]

\* load_map_orderly's loop body once open() and fstat() returned (st; None
\* when they raised OSError)
Loaded(c, e, abs_path, st) ==
    IF IsNone(st)
    THEN EmitResult(e, "Failure", None, abs_path, FALSE)
    ELSE Emit(c, e, OrganizeSource(abs_path, StatOf(The(st)), Some(The(st).data.stime)),
              The(st).data)

\* load_map_orderly's loop body for one path: open and load the file, emit it
LoadAndEmit(c, e, path) ==
    Loaded(c, e, RealPath(e.fs, path, 4), StatFile(e.fs, path))

\* walk_orderly's order_by: the paths are yielded in lexicographic order (True),
\* in reverse lexicographic order (False) or as readdir gives them (None)
RootRank(root) == IF root = "in" THEN 0 ELSE 1
PathBefore(p, q) ==
    \/ RootRank(p[1]) < RootRank(q[1])
    \/ p[1] = q[1] /\ p[2] < q[2]
    \/ p[1] = q[1] /\ p[2] = q[2] /\ p[3] < q[3]
NextPaths(order_by, paths) ==
    IF order_by = None THEN paths
    ELSE IF The(order_by) THEN {p \in paths : \A q \in paths : ~PathBefore(q, p)}
    ELSE {p \in paths : \A q \in paths : ~PathBefore(p, q)}

\* the record of an emit that returned normally or left by way of the flush
Placement(path, r) ==
    [path |-> RealPath(fs, path, 4), data |-> The(StatFile(fs, path)).data,
     dest |-> r.abs_out_path, noop |-> IsNone(r.intent)]

\* the loop body's end: h is what `except Failure` made of the outcome r
WalkHandled(path, r, h) ==
    /\ Becomes(h.e)
    /\ raised' = h.raised
    /\ pc' = IF h.raised = "none" THEN "walk" ELSE "finish"
    /\ placed' = IF r.permitted THEN placed \cup {Placement(path, r)} ELSE placed

WalkEmitted(path, r) == WalkHandled(path, r, WalkerHandles(cargs, r))

\* one iteration of load_map_orderly's loop, were it not to poll want_stop
WalkUnpolled(path) ==
    /\ pc = "walk"
    /\ path \in NextPaths(cargs.walk_fs, todo)
    /\ WalkEmitted(path, LoadAndEmit(cargs, Current, path))
    /\ todo' = todo \ {path}
    /\ UNCHANGED <<cargs, want_stop, should_raise>>

\* one iteration of load_map_orderly's loop
Walk(path) ==
    /\ pc = "walk"
    /\ ~want_stop
    /\ path \in NextPaths(cargs.walk_fs, todo)
    /\ WalkEmitted(path, LoadAndEmit(cargs, Current, path))
    /\ todo' = todo \ {path}
    /\ UNCHANGED <<cargs, want_stop, should_raise>>

\* load_map_orderly: `if want_stop: raise KeyboardInterrupt()`
WalkStop ==
    /\ pc = "walk"
    /\ want_stop
    /\ todo # {}
    /\ pc' = "finish"
    /\ raised' = "KeyboardInterrupt"
    /\ events' = <<>>
    /\ UNCHANGED <<cargs, fs, nextIno, seen, intents, cache, mem, dsync, stdout, logged,
                   todo, want_stop, should_raise, placed>>

\* the walk ends: no path is left
WalkEnd ==
    /\ pc = "walk"
    /\ todo = {}
    /\ pc' = "finish"
    /\ events' = <<>>
    /\ UNCHANGED <<cargs, fs, nextIno, seen, intents, cache, mem, dsync, stdout, logged,
                   todo, want_stop, should_raise, raised, placed>>

\* sig_handler, for a signal that arrives between two records of the walk
Signal ==
    /\ pc = "walk"
    /\ want_stop' = TRUE
    /\ should_raise' = TRUE
    /\ IF should_raise
       THEN pc' = "finish" /\ raised' = "KeyboardInterrupt"
       ELSE UNCHANGED <<pc, raised>>
    /\ events' = <<>>
    /\ UNCHANGED <<cargs, fs, nextIno, seen, intents, cache, mem, dsync, stdout, logged,
                   todo, placed>>

\* the finally block's end: an exception of finish() replaces the one unwinding
Finished(r) ==
    /\ Becomes(r.e)
    /\ raised' = IF r.status = "ok" THEN raised ELSE r.status

\* cmd_organize's `finally: finish()`
Finish ==
    /\ pc = "finish"
    /\ Finished(FinishUpdates(cargs, Current))
    /\ pc' = "done"
    /\ UNCHANGED <<cargs, todo, want_stop, should_raise, placed>>

\* the walk and the finally block from engine state e on, for the paths
\* not yet walked, when no signal arrives: the engine state at the end and
\* the exception that leaves cmd_organize
RECURSIVE RestOfRun(_, _, _)

\* the finally block, entered with the exception `raised` unwinding
RestEnd(r, exception) ==
    [e |-> r.e, raised |-> IF r.status = "ok" THEN exception ELSE r.status]

\* the same, once the walker handled the record at path (h)
RestAfter(c, h, paths, path) ==
    IF h.raised = "none" THEN RestOfRun(c, h.e, paths \ {path})
    ELSE RestEnd(FinishUpdates(c, h.e), h.raised)

RestFrom(c, e, paths, path) ==
    RestAfter(c, WalkerHandles(c, LoadAndEmit(c, e, path)), paths, path)

RestOfRun(c, e, paths) ==
    IF paths = {} THEN RestEnd(FinishUpdates(c, e), "none")
    ELSE RestFrom(c, e, paths, CHOOSE p \in NextPaths(c.walk_fs, paths) : TRUE)

Next ==
    \/ Start
    \/ \E path \in todo : Walk(path)
    \/ WalkStop
    \/ WalkEnd
    \/ Signal
    \/ Finish

----------------------------------------------------------------------------
(* Initial states: a command line and a file system *)

\* the bytes of a WRR file: a body, and the fields parsed from it
Data(body, key, stime) == [body |-> body, key |-> key, stime |-> stime]

\* two records of one key with different bodies, the second one newer, and a
\* record of another key
DataA == Data(1, 1, 1)
DataB == Data(2, 1, 2)
DataC == Data(3, 2, 1)
\* a record of the first key that is as new as DataB, with another body
DataD == Data(4, 1, 2)

Inputs == 1..NFiles

\* input i lies at <<"in", i, 0>>, or already under the destination at
\* <<"out", 1, i>>
InPath(i) == <<"in", i, 0>>
PlacePath(i) == <<"out", 1, i>>

\* the device of input i: the second input lies on another device than the
\* destination
DevOf(i) == IF i = 2 THEN DestDev + 1 ELSE DestDev

\* the file system with input i at assign[i].path holding assign[i].data on
\* device assign[i].dev (its inode is i), over the entries of pre
Layout(assign, pre) ==
    [p \in {assign[i].path : i \in Inputs} \cup DOMAIN pre |->
        IF \E i \in Inputs : assign[i].path = p
        THEN File(CHOOSE i \in Inputs : assign[i].path = p,
                  assign[CHOOSE i \in Inputs : assign[i].path = p].dev,
                  assign[CHOOSE i \in Inputs : assign[i].path = p].data)
        ELSE pre[p]]

\* nothing under the destination
NoPre == <<>>
\* a file with the bytes of DataA, a dangling symlink, a symlink to input 1
PreFile == [p \in {<<"out", 1, 0>>} |-> File(NFiles + 1, DestDev, DataA)]
PreDangling == [p \in {<<"out", 1, 0>>} |-> Link(<<"in", 0, 0>>)]
PreLink == [p \in {<<"out", 1, 0>>} |-> Link(InPath(1))]

InitWith(Configs, Assigns, Pres) ==
    /\ cargs \in Configs
    /\ \E assign \in Assigns, pre \in Pres :
          /\ fs = Layout(assign, pre)
          /\ todo = {assign[i].path : i \in Inputs}
    /\ nextIno = NFiles + 2
    /\ seen = <<>>
    /\ intents = <<>>
    /\ cache = <<>>
    /\ mem = 0
    /\ dsync = EmptySync
    /\ stdout = <<>>
    /\ logged = 0
    /\ want_stop = FALSE
    /\ should_raise = TRUE
    /\ pc = "start"
    /\ raised = "none"
    /\ events = <<>>
    /\ placed = {}

\* the defaults of add_memory
DefaultBudgets ==
    [max_seen |-> 16384, max_cached |-> 8192, max_deferred |-> 1024,
     max_batched |-> 128, max_memory |-> 1024]

\* every intent runs in the flush of its own emit
Immediate == [DefaultBudgets EXCEPT !.max_deferred = 0, !.max_batched = 0]

\* as Immediate, and the seen counter keeps one key
SeenOne == [Immediate EXCEPT !.max_seen = 1]

\* every budget at zero or at its default
SmallBudgets ==
    [max_seen : {0, 16384}, max_cached : {0, 8192}, max_deferred : {0, 1024},
     max_batched : {0, 128}, max_memory : {0, 1024}]

Config(action, allow_updates, errors, hasNum, budgets, lazy) ==
    [action |-> action, allow_updates |-> allow_updates, dry_run |-> FALSE,
     errors |-> errors, terminator |-> Some("lf"), hasNum |-> hasNum,
     destination |-> "out", lazy |-> lazy, walk_fs |-> Some(~allow_updates),
     max_seen |-> budgets.max_seen, max_cached |-> budgets.max_cached,
     max_deferred |-> budgets.max_deferred, max_batched |-> budgets.max_batched,
     max_memory |-> budgets.max_memory]

Actions == {"move", "copy", "hardlink", "symlink"}

\* inputs under "in", on the devices of DevOf, each holding one of datas
InAssigns(datas) ==
    {[i \in Inputs |-> [path |-> InPath(i), dev |-> DevOf(i), data |-> d[i]]] :
        d \in [Inputs -> datas]}

\* inputs that lie under the destination already, each holding one of datas
PlaceAssigns(datas) ==
    {[i \in Inputs |-> [path |-> PlacePath(i), dev |-> DestDev, data |-> d[i]]] :
        d \in [Inputs -> datas]}

\* keep with a numbered template into an empty destination, under every
\* budget of SmallBudgets
Init ==
    InitWith({Config(a, FALSE, "skip", TRUE, b, FALSE) : a \in Actions, b \in SmallBudgets},
             InAssigns({DataA, DataB}), {NoPre})

Spec == Init /\ [][Next]_vars

\* keep under every errors policy, with and without num in the template
InitErrors ==
    InitWith({Config(a, FALSE, er, n, b, FALSE) :
                 a \in {"move", "hardlink"}, er \in {"fail", "skip", "ignore"},
                 n \in BOOLEAN, b \in {DefaultBudgets, Immediate}},
             InAssigns({DataA, DataB}), {NoPre})

SpecErrors == InitErrors /\ [][Next]_vars

\* organizing a directory in place
InitInPlace ==
    InitWith({Config(a, FALSE, "skip", TRUE, b, FALSE) :
                 a \in {"move", "copy"}, b \in {DefaultBudgets, SeenOne}},
             PlaceAssigns({DataA, DataB, DataC}), {NoPre})

SpecInPlace == InitInPlace /\ [][Next]_vars

\* every budget at zero
NoBudgets ==
    [max_seen |-> 0, max_cached |-> 0, max_deferred |-> 0, max_batched |-> 0,
     max_memory |-> 0]

\* --lazy, with budgets every flush of a non-lazy run would exceed
InitLazy ==
    InitWith({Config(a, FALSE, "skip", TRUE, b, TRUE) : a \in Actions, b \in {Immediate, NoBudgets}},
             InAssigns({DataA, DataB}), {NoPre})

SpecLazy == InitLazy /\ [][Next]_vars

\* --symlink --latest with a template without num, so that the records of
\* one key share their destination; cmd_organize then walks in reverse order
InitLatest ==
    InitWith({Config("symlink", TRUE, "skip", FALSE, b, l) :
                 b \in {DefaultBudgets, Immediate, NoBudgets}, l \in BOOLEAN},
             InAssigns({DataA, DataB, DataD}), {NoPre})

SpecLatest == InitLatest /\ [][Next]_vars

\* keep into a destination that holds something for the first key already:
\* a file with the bytes of DataA, a symlink to the first input, or a
\* dangling symlink
InitExisting ==
    InitWith({Config(a, FALSE, "skip", n, b, FALSE) :
                 a \in Actions, n \in BOOLEAN, b \in {DefaultBudgets, Immediate}},
             InAssigns({DataA, DataB}), {PreFile, PreLink, PreDangling})

SpecExisting == InitExisting /\ [][Next]_vars

\* keep with the last input path a symlink to the first input:
\* load_map_orderly resolves it, so the first input's file is emitted twice
InitAliased ==
    /\ cargs \in {Config(a, FALSE, "skip", n, b, FALSE) :
                     a \in Actions, n \in BOOLEAN, b \in {DefaultBudgets, Immediate}}
    /\ \E assign \in InAssigns({DataA, DataB}) :
          fs = [Layout(assign, NoPre) EXCEPT ![InPath(NFiles)] = Link(InPath(1))]
    /\ todo = {InPath(i) : i \in Inputs}
    /\ nextIno = NFiles + 2
    /\ seen = <<>>
    /\ intents = <<>>
    /\ cache = <<>>
    /\ mem = 0
    /\ dsync = EmptySync
    /\ stdout = <<>>
    /\ logged = 0
    /\ want_stop = FALSE
    /\ should_raise = TRUE
    /\ pc = "start"
    /\ raised = "none"
    /\ events = <<>>
    /\ placed = {}

SpecAliased == InitAliased /\ [][Next]_vars

\* every action with and without --latest, with --to and without it; the
\* inputs lie in the directory the command line names
InitConfigured ==
    InitWith({[Config(a, u, "skip", n, Immediate, FALSE) EXCEPT !.destination = d] :
                 a \in Actions, u \in BOOLEAN, n \in BOOLEAN, d \in {"out", "unset"}},
             PlaceAssigns({DataA, DataB}), {NoPre})

SpecConfigured == InitConfigured /\ [][Next]_vars

\* --dry-run, into an empty destination and into one that holds a file
InitDryRun ==
    InitWith({[Config(a, FALSE, er, n, b, FALSE) EXCEPT !.dry_run = TRUE] :
                 a \in Actions, er \in {"fail", "skip"}, n \in BOOLEAN,
                 b \in {DefaultBudgets, Immediate}},
             InAssigns({DataA, DataB}), {NoPre, PreFile})

SpecDryRun == InitDryRun /\ [][Next]_vars

\* input i lies under the destination where a record of the first key and
\* num i - 1 belongs, the last input where the first record of the second
\* key belongs
HomePath(i) == IF i = NFiles THEN <<"out", 2, 0>> ELSE <<"out", 1, i - 1>>

HomeAssigns(datas) ==
    {[i \in Inputs |-> [path |-> HomePath(i), dev |-> DestDev, data |-> d[i]]] :
        d \in [Inputs -> datas]}

\* organizing a directory in place whose files may be where they belong
InitHome ==
    InitWith({Config(a, FALSE, "skip", n, b, FALSE) :
                 a \in Actions, n \in BOOLEAN, b \in {DefaultBudgets, Immediate}},
             HomeAssigns({DataA, DataC}), {NoPre})

SpecHome == InitHome /\ [][Next]_vars

\* inputs under "in", but for the last one, which lies under the destination
\* where a record of the second key belongs
MixedAssigns(datas) ==
    {[i \in Inputs |-> [path |-> IF i = NFiles THEN HomePath(i) ELSE InPath(i),
                        dev |-> IF i = NFiles THEN DestDev ELSE DevOf(i),
                        data |-> d[i]]] :
        d \in [Inputs -> datas]}

\* --symlink --latest, and --move and --copy under keep, with a template
\* without num, into a destination that holds one of the inputs
InitMixed ==
    InitWith({Config("symlink", TRUE, "skip", FALSE, b, FALSE) :
                 b \in {DefaultBudgets, Immediate}}
             \cup {Config(a, FALSE, "skip", FALSE, b, FALSE) :
                      a \in {"move", "copy"}, b \in {DefaultBudgets, Immediate}},
             MixedAssigns({DataA, DataB, DataC}), {NoPre})

SpecMixed == InitMixed /\ [][Next]_vars

\* budgets a run of a few files exceeds: --defer-number and --batch-number
\* of a few intents, with the memory budget at its default and at zero
BatchBudgets ==
    {[DefaultBudgets EXCEPT !.max_deferred = d, !.max_batched = b, !.max_memory = m] :
        d \in {0, 1}, b \in {1, 2}, m \in {0, 1024}}

\* keep with a numbered template under the budgets of BatchBudgets
InitBatched ==
    InitWith({Config("move", FALSE, "skip", TRUE, b, FALSE) : b \in BatchBudgets},
             InAssigns({DataA, DataB, DataC}), {NoPre})

SpecBatched == InitBatched /\ [][Next]_vars

\* the seen counter on its own: keys of different lengths are counted and the
\* oldest entry is popped, in any order; events keeps every call and what it
\* returned
SeenKeys == {<<"in", 1, 0>>, <<"out", 1, 0>>, <<"out", 2, 10>>}

\* calls made to one counter
MaxCalls == NFiles + 2

InitSeen ==
    InitWith({Config("move", FALSE, "skip", TRUE, DefaultBudgets, FALSE)},
             InAssigns({DataA}), {NoPre})

SeenReturns(e, call) ==
    /\ seen' = e.seen
    /\ mem' = e.mem
    /\ events' = Append(events, call)
    /\ UNCHANGED <<cargs, fs, nextIno, intents, cache, dsync, stdout, logged,
                   todo, want_stop, should_raise, pc, raised, placed>>

\* seen_counter.count(value)
CountKey(value) ==
    /\ Len(events) < MaxCalls
    /\ SeenReturns(SeenCount(Current, value).e,
                   <<"count", value, SeenCount(Current, value).count>>)

\* seen_counter.pop(), which flush_updates calls on a counter that is not empty
PopKey ==
    /\ Len(events) < MaxCalls
    /\ seen # <<>>
    /\ SeenReturns(SeenPop(Current).e, <<"pop", SeenPop(Current).abs_out_path>>)

NextSeen ==
    \/ \E value \in SeenKeys : CountKey(value)
    \/ PopKey

SpecSeen == InitSeen /\ [][NextSeen]_vars

----------------------------------------------------------------------------
(* Notions the properties below are stated with *)

RECURSIVE SumOf(_)
SumOf(numbers) == IF numbers = <<>> THEN 0 ELSE Head(numbers) + SumOf(Tail(numbers))

\* the bytes a path under the destination holds, following symlinks
HoldsContent(f, p) == p[1] = "out" /\ Exists(f, p) /\ ~IsNone(StatFile(f, p))
ContentAt(f, p) == The(StatFile(f, p)).data

\* the positions of the events of one kind in the history of the last handler
EventsOf(kind) == {i \in 1..Len(events) : events[i][1] = kind}

\* the paths of the events of one kind, in order
PathsOf(history, kind) ==
    [i \in 1..Len(SelectSeq(history, LAMBDA ev : ev[1] = kind)) |->
        SelectSeq(history, LAMBDA ev : ev[1] = kind)[i][2]]

\* the command line asks for keep
Keeping == ~cargs.allow_updates

----------------------------------------------------------------------------
(* C1 *)

\* C1: under keep no step of the program replaces the content a destination
\* path holds by different content, be it content on disk or the content of
\* the source of an intent queued for that path.
KeepNeverReplaces ==
    [][Keeping =>
          /\ \A p \in DOMAIN fs :
                HoldsContent(fs, p) /\ HoldsContent(fs', p)
                    => ContentAt(fs', p) = ContentAt(fs, p)
          /\ \A p \in ODKeys(intents) \cap ODKeys(intents') :
                ODGet(intents', p).source = ODGet(intents, p).source]_vars

----------------------------------------------------------------------------
(* C2 *)

\* C2: finish_updates never fails its assertion, and once it returned the
\* seen counter, the intent queue and the source cache are empty and
\* consumption is 0.
FinishDrainsEverything ==
    /\ raised # "AssertionError"
    /\ pc = "done" /\ raised \in {"none", "KeyboardInterrupt", "Failure"}
           => seen = <<>> /\ intents = <<>> /\ cache = <<>> /\ mem = 0

----------------------------------------------------------------------------
(* C3 *)

\* the place of an event in the order of a flush; 0 for the events of emit
FlushRank(kind) ==
    IF kind \in {"run", "run failed"} THEN 1
    ELSE IF kind = "fsync" THEN 2
    ELSE IF kind = "report" THEN 3
    ELSE IF kind = "unlink" THEN 4
    ELSE 0

\* C3: in the flush of every handler all runs come first, then the fsyncs,
\* then the reports, then the unlinks; a destination is reported only after
\* its fsync, and a source is unlinked only after an fsync.
FlushOrder ==
    /\ \A i, j \in 1..Len(events) :
          /\ FlushRank(events[i][1]) > 0
          /\ FlushRank(events[i][1]) < FlushRank(events[j][1])
          => i < j
    /\ \A j \in EventsOf("report") :
          \E i \in EventsOf("fsync") : i < j /\ events[i][2] = events[j][2]
    /\ \A j \in EventsOf("unlink") : \E i \in EventsOf("fsync") : i < j

\* a flush ran an intent, fsynced, reported and unlinked the source of a move
FlushOrderWitness ==
    /\ EventsOf("run") # {}
    /\ EventsOf("fsync") # {}
    /\ EventsOf("report") # {}
    /\ EventsOf("unlink") # {}

----------------------------------------------------------------------------
(* C4 *)

SeenKeyLengths == SumOf([i \in 1..Len(seen) |-> PathLen(seen[i].k)])
CacheSizes == SumOf([i \in 1..Len(cache) |-> SourceApproxSize(cache[i].v)])
IntentSizes == SumOf([i \in 1..Len(intents) |-> IntentApproxSize(intents[i].v)])
CacheKeyLengths == SumOf([i \in 1..Len(cache) |-> PathLen(cache[i].k)])
IntentKeyLengths == SumOf([i \in 1..Len(intents) |-> PathLen(intents[i].k)])

\* C4 as stated: consumption is the approx_size of the cached sources and of
\* the queued intents plus the lengths of the seen keys.
ConsumptionIsApproxSizes == mem = CacheSizes + IntentSizes + SeenKeyLengths

\* C4: between handlers consumption is the approx_size of the cached sources
\* and of the queued intents, plus the length of the destination path of
\* each of them, plus the lengths of the seen keys.
ConsumptionIsExact ==
    mem = CacheSizes + CacheKeyLengths + IntentSizes + IntentKeyLengths + SeenKeyLengths

\* the three collections are all in use
ConsumptionWitness == seen # <<>> /\ intents # <<>> /\ cache # <<>> /\ mem > 0

----------------------------------------------------------------------------
(* C5 *)

\* the first position of a path on the reporting channel
FirstReport(p) == CHOOSE i \in 1..Len(stdout) : stdout[i] = p /\ \A j \in 1..(i - 1) : stdout[j] # p
Reported(p) == \E i \in 1..Len(stdout) : stdout[i] = p

\* two placed records of one base key with different content, x walked first
Rivals(x, y) ==
    /\ x.data.key = y.data.key
    /\ x.data.body # y.data.body
    /\ PathBefore(x.path, y.path)

\* the destination the template gives a key and a num
Numbered(key, num) == AbsPath(FormatOutput(cargs.destination, cargs.hasNum, key, num))

----------------------------------------------------------------------------
(* C6 *)

\* the record the walker takes in this step, if the step is one of Walk
Walking == pc = "walk" /\ todo' # todo
Walked == CHOOSE p \in todo : p \notin todo'
WalkedData == The(StatFile(fs, Walked)).data

\* the destination of the walked record holds other content than the
\* record's, on disk or as the source of a queued intent
Clash(d) ==
    \/ /\ ODHas(intents, d)
       /\ ~IsNone(StatFile(fs, ODGet(intents, d).source.abs_path))
       /\ The(StatFile(fs, ODGet(intents, d).source.abs_path)).data.body # WalkedData.body
    \/ /\ ~ODHas(intents, d)
       /\ HoldsContent(fs, d)
       /\ ContentAt(fs, d).body # WalkedData.body

\* the count the seen counter holds for a key, -1 when it does not hold it
CountOf(counter, key) == IF ODHas(counter, key) THEN ODGet(counter, key) ELSE -1

\* C6: without num in the template, under keep, the emit of a record whose
\* destination holds different content fails with "destination already
\* exists" and the variance hint in the second round of the retry loop, and
\* what the destination holds stays.
VarianceDetected ==
    [][Walking /\ Keeping /\ ~cargs.hasNum /\ ~IsNone(StatFile(fs, Walked))
          /\ Clash(Numbered(WalkedData.key, 0))
          => /\ \E i \in 1..Len(events') :
                  events'[i] = <<"variance", Numbered(WalkedData.key, 0)>>
             /\ CountOf(seen', FormatOutput(cargs.destination, FALSE, WalkedData.key, 0))
                  = CountOf(seen, FormatOutput(cargs.destination, FALSE, WalkedData.key, 0)) + 2
             /\ HoldsContent(fs, Numbered(WalkedData.key, 0))
                  => /\ HoldsContent(fs', Numbered(WalkedData.key, 0))
                     /\ ContentAt(fs', Numbered(WalkedData.key, 0))
                          = ContentAt(fs, Numbered(WalkedData.key, 0))]_vars

----------------------------------------------------------------------------
(* C7 *)

\* C7: after a --move that ended normally every content is stored once
\* under the destination, and the inputs that were placed are gone from
\* where they were.
MoveDeduplicates ==
    Moving(cargs) /\ pc = "done" /\ raised = "none" =>
        /\ \A p, q \in DOMAIN fs :
              HoldsContent(fs, p) /\ HoldsContent(fs, q) /\ ContentAt(fs, p) = ContentAt(fs, q)
                  => p = q
        /\ \A x \in placed : x.path # x.dest => ~Exists(fs, x.path)

----------------------------------------------------------------------------
(* C8 *)

\* C8: with reporting enabled the destinations a handler's flush ran are
\* the destinations it reported, in the same order.
ReportsEveryRun ==
    ~IsNone(cargs.terminator) => PathsOf(events, "run") = PathsOf(events, "report")

----------------------------------------------------------------------------
(* C9 *)

\* the number of Failures raised in a history
Failures(history) ==
    Len(SelectSeq(history, LAMBDA ev : ev[1] \in {"run failed", "emit failed"}))

\* C9: a handler in which placing raised Failures goes on under ignore
\* without logging, goes on under skip with one log record for each, and
\* under fail ends the run at the first; under ignore and skip the walk
\* goes on with the next record and a run that ended normally left no
\* intent queued.
ErrorsPolicy ==
    [][/\ Failures(events') > 0 =>
             /\ cargs.errors = "ignore"
                    => logged' = logged /\ raised' \notin {"Failure", "CatastrophicFailure"}
             /\ cargs.errors = "skip"
                    => /\ logged' = logged + Failures(events')
                       /\ raised' \notin {"Failure", "CatastrophicFailure"}
             /\ cargs.errors = "fail"
                    => /\ Failures(events') = 1
                       /\ raised' \in {"Failure", "CatastrophicFailure"}
                       /\ pc' \in {"finish", "done"}
       /\ Walking /\ cargs.errors # "fail" /\ raised' = "none" => pc' = "walk"
       /\ pc' = "done" /\ cargs.errors # "fail" /\ raised' \in {"none", "KeyboardInterrupt"}
             => intents' = <<>>]_vars

\* under skip the final flush logged the intent that failed and ran the others
ErrorsPolicyWitness ==
    /\ cargs.errors = "skip"
    /\ pc = "done"
    /\ raised = "none"
    /\ logged >= 1
    /\ EventsOf("run failed") # {}
    /\ EventsOf("run") # {}

----------------------------------------------------------------------------
(* C10 *)

\* C10 as stated: when the command returns no intent is left queued.
FinishRunsEveryIntent == pc = "done" => intents = <<>>

\* C10: when the command returns no intent is left queued, unless the run
\* of an intent raised in the final flush under errors = fail and ended it.
FinishRunsEveryIntentUnlessAborted ==
    pc = "done" /\ ~(cargs.errors = "fail" /\ EventsOf("run failed") # {})
        => intents = <<>>

\* the walk was interrupted and the finally block ran what was queued
FinishWitness ==
    /\ pc = "done"
    /\ raised = "KeyboardInterrupt"
    /\ EventsOf("run") # {}
    /\ intents = <<>>

----------------------------------------------------------------------------
(* C11 *)

\* the number of intents a history started: the calls of intent.run
Started(history) ==
    Len(SelectSeq(history, LAMBDA ev : ev[1] \in {"run", "run failed"}))

----------------------------------------------------------------------------
(* C12 *)

\* C12: in lazy mode the emit of a record runs no intent and changes
\* nothing on disk; intents run in the flush of finish_updates only, and
\* that one flush starts every intent the emits queued.
LazyDefers ==
    [][cargs.lazy =>
          /\ Walking => fs' = fs /\ dsync' = dsync /\ Started(events') = 0
          /\ Started(events') > 0 => pc = "finish" /\ pc' = "done"
          /\ pc = "finish" /\ raised' \in {"none", "KeyboardInterrupt"}
                 => Started(events') = Len(intents) /\ intents' = <<>>]_vars

\* a lazy run with --defer-number 0 queued three intents and ran them all
\* in its final flush
LazyWitness ==
    /\ cargs.lazy
    /\ cargs.max_deferred = 0
    /\ pc = "done"
    /\ raised = "none"
    /\ Cardinality(EventsOf("run")) >= 3

----------------------------------------------------------------------------
(* C13 *)

\* the step is an iteration of the walker whose emit returned normally
EmitReturned ==
    /\ Walking
    /\ raised' = "none"
    /\ \A i \in 1..Len(events') : events'[i][1] # "emit failed"

\* C13: with --defer-number 0, in non-lazy mode, no intent is queued when
\* emit returns, whatever the other budgets are.
DeferZeroIsImmediate ==
    [][EmitReturned /\ ~cargs.lazy /\ cargs.max_deferred = 0 => intents' = <<>>]_vars

----------------------------------------------------------------------------
(* C14 *)

\* C14: with --seen-number 0, in non-lazy mode, no intent is queued when
\* emit returns, whatever --defer-number is and whatever num the record
\* was placed at.
SeenZeroIsImmediate ==
    [][EmitReturned /\ ~cargs.lazy /\ cargs.max_seen = 0 => intents' = <<>>]_vars

----------------------------------------------------------------------------
(* C15 *)

\* C15: when the flush at the end of an emit returned, consumption is
\* within --max-memory.
WithinMemory ==
    [][EmitReturned /\ ~cargs.lazy => mem' <= MaxMemory(cargs, FALSE)]_vars

\* with --max-memory 0 and the defaults for the numbers, the flush of an
\* emit ran intents and emptied the seen counter, the queue and the cache
WithinMemoryWitness ==
    /\ ~cargs.lazy
    /\ cargs.max_memory = 0
    /\ cargs.max_seen = 16384 /\ cargs.max_cached = 8192 /\ cargs.max_deferred = 1024
    /\ pc = "walk"
    /\ Cardinality(placed) >= 2
    /\ EventsOf("run") # {}
    /\ mem = 0

----------------------------------------------------------------------------
(* C16 *)

\* the walker emitted record x before record y
EmittedBefore(x, y) ==
    IF The(cargs.walk_fs) THEN PathBefore(x.path, y.path) ELSE PathBefore(y.path, x.path)

\* w is, among the emitted records of its destination, the first emitted
\* of the newest ones
Newest(w) ==
    \A y \in placed :
        y.dest = w.dest /\ y # w
            => \/ y.data.stime < w.data.stime
               \/ y.data.stime = w.data.stime /\ EmittedBefore(w, y)

\* C16: under allow_updates, once finish_updates returned, a destination is
\* a link to the newest of the sources emitted for it, in whatever order
\* they were emitted, and among sources of the same stime to the one
\* emitted first.
NewestWinsAtDestination ==
    cargs.allow_updates /\ pc = "done" /\ raised \in {"none", "KeyboardInterrupt"} =>
        \A w \in placed :
            Newest(w) => Exists(fs, w.dest) /\ fs[w.dest] = Link(w.path)

\* an older source was emitted first and replaced by a newer one, a source
\* as new as that one came later, and the destination links to the second
NewestWinsWitness ==
    /\ cargs.allow_updates
    /\ cargs.max_deferred = 0
    /\ pc = "done"
    /\ raised = "none"
    /\ \E x, w, y \in placed :
          /\ EmittedBefore(x, w) /\ x.data.stime < w.data.stime
          /\ EmittedBefore(w, y) /\ y.data.stime = w.data.stime /\ y.data.body # w.data.body
          /\ Newest(w)
          /\ fs[w.dest] = Link(w.path)

----------------------------------------------------------------------------
(* C17 *)

\* the destination emit computes first for the walked record
FirstDest ==
    Numbered(WalkedData.key,
             CountOf(seen, FormatOutput(cargs.destination, cargs.hasNum, WalkedData.key, 0)) + 1)

\* the destination holds the content of the walked record, on disk or as
\* the source of a queued intent
Same(d) ==
    \/ /\ ODHas(intents, d)
       /\ ~IsNone(StatFile(fs, ODGet(intents, d).source.abs_path))
       /\ The(StatFile(fs, ODGet(intents, d).source.abs_path)).data.body = WalkedData.body
    \/ /\ ~ODHas(intents, d)
       /\ HoldsContent(fs, d)
       /\ ContentAt(fs, d).body = WalkedData.body

\* the walker takes a readable record that lies elsewhere than at d
Arrives(d) ==
    Walking /\ ~IsNone(StatFile(fs, Walked)) /\ RealPath(fs, Walked, 4) # d

\* what d holds stays: a queued intent keeps its source, or ran (or failed)
\* in this step's flush with that source; a file keeps its content
HeldStays(d) ==
    IF ODHas(intents, d)
    THEN \/ ODHas(intents', d) /\ ODGet(intents', d).source = ODGet(intents, d).source
         \/ /\ ~ODHas(intents', d)
            /\ HoldsContent(fs', d)
            /\ ContentAt(fs', d) = The(StatFile(fs, ODGet(intents, d).source.abs_path)).data
         \/ /\ ~ODHas(intents', d)
            /\ \E i \in 1..Len(events') : events'[i] = <<"run failed", d>>
    ELSE HoldsContent(fs', d) /\ ContentAt(fs', d) = ContentAt(fs, d)

\* the records this step's emit placed at d
PlacedAt(d) == {x \in placed' \ placed : x.dest = d}

\* C17: under keep, for the actions that compare data, a record whose
\* destination holds other content is not placed there, a record whose
\* destination holds the same content is accepted there (with no intent
\* of its own, or for move as the replacement by the same bytes), no
\* exception other than a Failure is raised, and what the destination
\* holds stays.
KeepRefusesOrKeeps ==
    [][Keeping /\ ~Symlinking(cargs) /\ Arrives(FirstDest)
          /\ (Clash(FirstDest) \/ Same(FirstDest))
          => /\ raised' \in {"none", "Failure", "CatastrophicFailure"}
             /\ Clash(FirstDest) => PlacedAt(FirstDest) = {}
             /\ Same(FirstDest) =>
                    \E x \in PlacedAt(FirstDest) :
                        ~Moving(cargs) /\ ~ODHas(intents, FirstDest) => x.noop
             /\ HeldStays(FirstDest)]_vars

----------------------------------------------------------------------------
(* C18 *)

\* the step ran the intent queued for d
Ran(d) == \E i \in 1..Len(events') : events'[i] = <<"run", d>>

\* C18: a move of a record whose destination holds the same bytes on disk
\* is permitted and makes a replace intent of the record's source; once
\* that intent ran the source path is gone and the destination holds the
\* same bytes as before.
MoveDedup ==
    [][Moving(cargs) /\ Keeping /\ Arrives(FirstDest)
          /\ ~ODHas(intents, FirstDest)
          /\ HoldsContent(fs, FirstDest) /\ fs[FirstDest].kind = "file"
          /\ ContentAt(fs, FirstDest) = WalkedData
          => /\ \E x \in PlacedAt(FirstDest) : ~x.noop
             /\ ODHas(intents', FirstDest)
                    => /\ ODGet(intents', FirstDest).exists
                       /\ ODGet(intents', FirstDest).source.abs_path = RealPath(fs, Walked, 4)
             /\ ~ODHas(intents', FirstDest) => Ran(FirstDest)
             /\ Ran(FirstDest)
                    => /\ ~Exists(fs', RealPath(fs, Walked, 4))
                       /\ HoldsContent(fs', FirstDest)
                       /\ ContentAt(fs', FirstDest) = ContentAt(fs, FirstDest)]_vars

----------------------------------------------------------------------------
(* C19 *)

\* the walked record lies elsewhere than at d, no intent is queued for d,
\* and d holds the record's bytes on disk the way the action leaves them:
\* as a symlink to a file for symlink, as a file for the other actions
HoldsWalked(d) ==
    /\ Arrives(d)
    /\ ~ODHas(intents, d)
    /\ HoldsContent(fs, d)
    /\ ContentAt(fs, d) = WalkedData
    /\ (fs[d].kind = "link") = Symlinking(cargs)

\* the step's emit was a no-op at d: it queued no intent, reported d at
\* once, and left the source and what d is; and with nothing queued
\* before, the step changed nothing on disk
NoOpAt(d) ==
    /\ \E x \in PlacedAt(d) : x.noop
    /\ ODKeys(intents') \subseteq ODKeys(intents)
    /\ Exists(fs', RealPath(fs, Walked, 4))
    /\ Exists(fs', d) /\ fs'[d] = fs[d]
    /\ intents = <<>> => fs' = fs /\ stdout' = Append(stdout, d)

\* C19 as stated: for copy, hardlink and symlink, placing a record at a
\* destination that holds its bytes is a no-op.
NonDuplicating ==
    [][Keeping /\ ~Moving(cargs) /\ HoldsWalked(FirstDest) => NoOpAt(FirstDest)]_vars

\* C19: for copy and hardlink, placing a record at a destination that
\* holds its bytes is a no-op; for symlink it is a no-op when the
\* destination is a link that resolves to the path of the record's file,
\* and a link that resolves to another file is left as it is and the
\* record is not placed there, whatever bytes that file holds.
NonDuplicatingByAction ==
    [][Keeping /\ ~Moving(cargs) /\ HoldsWalked(FirstDest) =>
          /\ ~Symlinking(cargs) => NoOpAt(FirstDest)
          /\ Symlinking(cargs) /\ RealPath(fs, FirstDest, 4) = RealPath(fs, Walked, 4)
                 => NoOpAt(FirstDest)
          /\ Symlinking(cargs) /\ RealPath(fs, FirstDest, 4) # RealPath(fs, Walked, 4)
                 => /\ PlacedAt(FirstDest) = {}
                    /\ Exists(fs', FirstDest) /\ fs'[FirstDest] = fs[FirstDest]]_vars

\* a copy or hardlink found its bytes in a file that was at the destination
\* before the run, and reported it without doing anything
NonDuplicatingWitness ==
    /\ cargs.action \in {"copy", "hardlink"}
    /\ pc = "walk"
    /\ placed = {[path |-> InPath(1), data |-> DataA, dest |-> <<"out", 1, 0>>, noop |-> TRUE]}
    /\ stdout = << <<"out", 1, 0>> >>
    /\ intents = <<>>
    /\ fs[<<"out", 1, 0>>] = PreFile[<<"out", 1, 0>>]

----------------------------------------------------------------------------
(* C20 *)

\* the walker takes a readable record that was placed at d before, from the
\* same file with the same bytes; d is on disk and no intent is queued
ReEmitted(x) ==
    /\ Walking /\ ~IsNone(StatFile(fs, Walked))
    /\ x.path = RealPath(fs, Walked, 4)
    /\ x.data = WalkedData
    /\ Exists(fs, x.dest)
    /\ intents = <<>>

\* C20: emitting a record again, from the same file with the same bytes,
\* when the destination it was placed at is on disk, changes nothing on
\* disk and reports that destination.
ReEmitIsNoop ==
    [][\A x \in placed : ReEmitted(x) =>
          /\ fs' = fs
          /\ stdout' = Append(stdout, x.dest)
          /\ \A y \in placed' : y.path = x.path => y.dest = x.dest]_vars

----------------------------------------------------------------------------
(* C21 *)

\* C21: --latest together with move, copy or hardlink, and --latest
\* without --to, end the command with a Failure in its first step, before
\* any record is taken and with the file system, the queues and the
\* reporting channel untouched; every other command line starts its walk,
\* so of the runs with --latest only those with symlink and --to walk.
RejectedWhenConfigured ==
    [][pc = "start" =>
          IF cargs.allow_updates /\ (cargs.action # "symlink" \/ cargs.destination = "unset")
          THEN /\ pc' = "done" /\ raised' = "Failure"
               /\ fs' = fs /\ todo' = todo /\ placed' = placed
               /\ intents' = <<>> /\ cache' = <<>> /\ seen' = <<>>
               /\ stdout' = <<>> /\ mem' = 0
          ELSE pc' = "walk" /\ raised' = "none"]_vars

\* a --copy --latest command line ended with the Failure, all inputs untaken
RejectedWitness ==
    /\ pc = "done" /\ raised = "Failure"
    /\ cargs.allow_updates /\ cargs.action = "copy"
    /\ Cardinality(todo) = NFiles
    /\ placed = {}

----------------------------------------------------------------------------
(* C22 *)

\* the command line of the real run that a dry run stands for
ForReal == [cargs EXCEPT !.dry_run = FALSE]

\* what the step at hand would make of the engine in that real run: the
\* walker's step for the walked record, or the finally block's flush
RealTwin ==
    IF pc = "walk"
    THEN WalkerHandles(ForReal, LoadAndEmit(ForReal, Current, Walked)).e
    ELSE FlushUpdates(ForReal, Current, TRUE).e

\* the step is one that emits or flushes
Handles == Walking \/ (pc = "finish" /\ pc' = "done")

\* the step left the queue, the cache, the seen counter and the memory
\* count as e has them
BooksAs(e) ==
    /\ intents' = e.intents
    /\ cache' = e.cache
    /\ seen' = e.seen
    /\ mem' = e.mem

\* the step changed nothing on disk and wrote nothing to the reporting
\* channel, which is empty
NothingDone == fs' = fs /\ stdout' = <<>> /\ dsync' = EmptySync

----------------------------------------------------------------------------
(* C23 *)

\* the source of the intent for d that the step at hand started: the one
\* queued for d, or the walked record's file
SourceFor(d) ==
    IF ODHas(intents, d) THEN ODGet(intents, d).source.abs_path ELSE RealPath(fs, Walked, 4)

\* the step started the intent for d, whose source is a file on another
\* file system than the destination
StartedAcross(d) ==
    /\ \E i \in 1..Len(events') : events'[i] \in {<<"run", d>>, <<"run failed", d>>}
    /\ ~IsNone(FileAt(fs, SourceFor(d)))
    /\ fs[SourceFor(d)].dev # DestDev

\* position of an event in the step's history, 0 when it is not there
At(event) ==
    IF \E i \in 1..Len(events') : events'[i] = event
    THEN CHOOSE i \in 1..Len(events') : events'[i] = event
    ELSE 0

\* C23: a move whose source lies on another file system than the
\* destination succeeds and is not logged as a failure; the destination
\* then holds the source's bytes in a file of its own; the source is
\* unlinked in the same flush, after the fsync queued for the destination,
\* and until then (when an exception ends the flush before) it stays on
\* disk with its unlink scheduled; a flush that returns reports the
\* destination.
MoveAcrossDevices ==
    [][Moving(cargs) =>
          \A d \in ODKeys(intents) \cup {x.dest : x \in placed' \ placed} :
              StartedAcross(d) =>
                  /\ At(<<"run", d>>) > 0 /\ At(<<"run failed", d>>) = 0
                  /\ logged' = logged
                  /\ HoldsContent(fs', d)
                  /\ ContentAt(fs', d) = fs[SourceFor(d)].data
                  /\ fs'[d].kind = "file" /\ fs'[d].dev = DestDev
                  /\ fs'[d].ino # fs[SourceFor(d)].ino
                  /\ IF At(<<"unlink", SourceFor(d)>>) > 0
                     THEN /\ ~Exists(fs', SourceFor(d))
                          /\ At(<<"fsync", d>>) > 0
                          /\ At(<<"fsync", d>>) < At(<<"unlink", SourceFor(d)>>)
                          /\ At(<<"report", d>>) > 0
                     ELSE /\ Exists(fs', SourceFor(d)) /\ fs'[SourceFor(d)] = fs[SourceFor(d)]
                          /\ \E i \in 1..Len(dsync'.unlinks) : dsync'.unlinks[i] = SourceFor(d)
                          /\ raised' \notin {"none", "KeyboardInterrupt"}]_vars

\* the move of the input on the other file system was done and reported,
\* its source is gone, and the command ended normally
MoveAcrossWitness ==
    /\ Moving(cargs) /\ pc = "done" /\ raised = "none"
    /\ ~Exists(fs, InPath(2))
    /\ \E x \in placed :
          /\ x.path = InPath(2) /\ ~x.noop
          /\ HoldsContent(fs, x.dest) /\ ContentAt(fs, x.dest) = x.data
          /\ Reported(x.dest)
    /\ \E i \in 1..Len(events) : events[i] = <<"unlink", InPath(2)>>

----------------------------------------------------------------------------
(* C24 *)

\* number of times path p was written to the reporting channel o
Reports(o, p) == Cardinality({i \in 1..Len(o) : o[i] = p})

\* the walker takes a readable record that lies at d
AtHome(d) == Walking /\ ~IsNone(StatFile(fs, Walked)) /\ RealPath(fs, Walked, 4) = d

\* the step's emit skipped the record at d: it is placed there with no
\* intent, none is queued for d, the file at d is as it was (and so is the
\* whole disk when nothing was queued), and d was written to the
\* reporting channel once, before anything a flush reports
Skipped(d) ==
    /\ \E x \in PlacedAt(d) : x.noop
    /\ ~ODHas(intents', d)
    /\ Exists(fs', d) /\ fs'[d] = fs[d]
    /\ intents = <<>> => fs' = fs
    /\ Len(stdout') > Len(stdout) /\ stdout'[Len(stdout) + 1] = d
    /\ Reports(stdout', d) = Reports(stdout, d) + 1

\* C24 as stated: a record whose computed destination is the path it lies
\* at is skipped.
RenameInPlace ==
    [][AtHome(FirstDest) => Skipped(FirstDest)]_vars

\* C24: a record whose computed destination is the path it lies at is
\* skipped, when no intent is queued for that path.
RenameInPlaceUnlessQueued ==
    [][AtHome(FirstDest) /\ ~ODHas(intents, FirstDest) => Skipped(FirstDest)]_vars

\* the first record lay where it belongs: it was reported at once and
\* nothing else happened
RenameInPlaceWitness ==
    /\ pc = "walk"
    /\ placed = {[path |-> HomePath(1), data |-> DataA, dest |-> HomePath(1), noop |-> TRUE]}
    /\ stdout = <<HomePath(1)>>
    /\ intents = <<>>
    /\ events = <<>>

----------------------------------------------------------------------------
(* C25 *)

Budgets == {"max_seen", "max_cached", "max_deferred", "max_batched", "max_memory"}

\* the command lines that differ from c in one budget, which is larger
RaisedFrom(c) ==
    {[c EXCEPT ![b] = DefaultBudgets[b]] : b \in {x \in Budgets : c[x] < DefaultBudgets[x]}}

\* the walk is about to take its first record
Fresh == pc = "walk" /\ Cardinality(todo) = NFiles /\ ~want_stop

\* the run from here on under command line c ends normally
EndsNormally(c) == RestOfRun(c, Current, todo).raised = "none"

\* the file system calls of the run from here on under command line c
CallsUnder(c) == RestOfRun(c, Current, todo).e.calls

\* C25: for the same inputs and the same disk, a run with one budget
\* raised makes no more file system calls (lstat and stat, opened files,
\* placements) than the run with the budget as it is; stated for the runs
\* that end normally under both command lines, so that a run cut short by
\* an exception does not count as the cheaper one.
BudgetMonotone ==
    Fresh => \A c \in RaisedFrom(cargs) :
                 EndsNormally(cargs) /\ EndsNormally(c) => CallsUnder(c) <= CallsUnder(cargs)

----------------------------------------------------------------------------
(* C26 *)

\* the key the seen counter keeps for destination p: the template's path
\* with num = 0
BaseOf(p) == <<p[1], p[2], 0>>

\* no intent is queued whose key the seen counter has forgotten
QueuedAreCounted == \A p \in ODKeys(intents') : ODHas(seen', BaseOf(p))

\* the walker takes a readable record whose key the seen counter does not
\* hold, so that its numbering starts at 0
Restarts ==
    /\ Walking /\ ~IsNone(StatFile(fs, Walked))
    /\ ~ODHas(seen, FormatOutput(cargs.destination, FALSE, WalkedData.key, 0))

\* the earlier placements of the walked record's key that are still queued
\* or on disk, elsewhere than where the walked record lies
EarlierOfKey ==
    {x \in placed : /\ x.data.key = WalkedData.key
                    /\ x.dest # RealPath(fs, Walked, 4)
                    /\ (ODHas(intents, x.dest) \/ HoldsContent(fs, x.dest))}

\* C26: under keep and outside lazy mode, a handler leaves no intent queued
\* whose key the seen counter forgot, and an emit whose numbering restarts
\* at 0 leaves what the earlier placements of its key hold as it is.
EvictionRunsIntents ==
    [][Keeping /\ ~cargs.lazy /\ pc = "walk" =>
          /\ raised' = "none" => QueuedAreCounted
          /\ Restarts => \A x \in EarlierOfKey : HeldStays(x.dest)]_vars

----------------------------------------------------------------------------
(* C27 *)

\* emit's loop for the record the walker takes in this step
WalkedLoop ==
    EmitLoop(cargs, Current,
             OrganizeSource(RealPath(fs, Walked, 4), StatOf(The(StatFile(fs, Walked))),
                            Some(WalkedData.stime)),
             WalkedData.key,
             FormatOutput(cargs.destination, cargs.hasNum, WalkedData.key, 0), None)

\* the flush of that emit as it reaches "flush deferred_intents"
WalkedAfterSeen ==
    FlushSeen(cargs,
              FlushState(WalkedLoop.e, <<>>, "ok", Len(WalkedLoop.e.seen),
                         Len(WalkedLoop.e.intents)),
              cargs.max_seen, MaxMemory(cargs, FALSE))

\* the step flushes, not finally, reaches "flush deferred_intents" and has
\* its memory budget there
FlushesWithinMemory ==
    /\ Walking /\ ~cargs.lazy /\ ~IsNone(StatFile(fs, Walked))
    /\ WalkedLoop.status = "ok"
    /\ ~WithinBudgets(cargs, WalkedLoop.e, FALSE)
    /\ WalkedAfterSeen.status = "ok"
    /\ WalkedAfterSeen.e.mem <= MaxMemory(cargs, FALSE)

GraceMargin == cargs.max_deferred + cargs.max_batched

\* C27: a flush that is not final and has its memory budget leaves the
\* queue as it is while at most max_deferred + max_batched intents are
\* queued; with more it drains the queue down to max_deferred, more than
\* max_batched intents in one pass; and after every emit outside lazy mode
\* at most max_deferred + max_batched intents are queued.
GraceMarginDrain ==
    [][/\ FlushesWithinMemory =>
             /\ Len(WalkedAfterSeen.e.intents) <= GraceMargin
                   => intents' = WalkedAfterSeen.e.intents
             /\ Len(WalkedAfterSeen.e.intents) > GraceMargin /\ raised' = "none"
                   => /\ Len(intents') = cargs.max_deferred
                      /\ Len(WalkedAfterSeen.e.intents) - Len(intents') > cargs.max_batched
       /\ Walking /\ ~cargs.lazy => Len(intents') <= GraceMargin]_vars

\* a flush has just run a batch of more than max_batched >= 1 intents and
\* left max_deferred >= 1 of them queued
GraceMarginWitness ==
    /\ pc = "walk" /\ cargs.max_batched >= 1 /\ cargs.max_deferred >= 1
    /\ Len(intents) = cargs.max_deferred
    /\ Cardinality({i \in 1..Len(events) : events[i][1] = "run"}) > cargs.max_batched

----------------------------------------------------------------------------
(* C28 *)

\* the flush that ends the emit of this step did not return early and
\* returned normally
WalkFlushed ==
    /\ Walking /\ ~cargs.lazy /\ ~IsNone(StatFile(fs, Walked))
    /\ WalkedLoop.status = "ok"
    /\ ~WithinBudgets(cargs, WalkedLoop.e, FALSE)
    /\ raised' = "none"

\* the same of the final flush
FinalFlushed ==
    /\ pc = "finish" /\ pc' = "done"
    /\ ~WithinBudgets(cargs, Current, TRUE)
    /\ FlushUpdates(cargs, Current, TRUE).status = "ok"

\* C28: whenever a flush that did not return early returns normally, the
\* source cache holds at most max_cached entries.
CacheWithinBudget ==
    [][WalkFlushed \/ FinalFlushed => Len(cache') <= cargs.max_cached]_vars

----------------------------------------------------------------------------
(* C29 *)

\* the paths the step writes to the reporting channel
NewlyReported == {stdout'[i] : i \in (Len(stdout) + 1)..Len(stdout')}

\* C29: every path a handler writes to the reporting channel exists on
\* disk when the handler is done and holds there (for a symlink: resolves
\* to) the bytes of a source that was emitted for it.
ReportsAreCommitted ==
    [][\A d \in NewlyReported :
          /\ HoldsContent(fs', d)
          /\ \E x \in placed' : x.dest = d /\ ContentAt(fs', d) = x.data]_vars

----------------------------------------------------------------------------
(* C30 *)

\* the destinations whose intent the step ran successfully and whose cache
\* entry the step's flush left in the source cache
RanAndCached ==
    {d \in {events'[i][2] : i \in 1..Len(events')} : Ran(d) /\ ODHas(cache', d)}

\* C30: after an intent for destination D ran successfully, the source
\* cached under D names a file that exists on disk and holds the bytes
\* that are at D.
CachedDescribesDestination ==
    [][\A d \in RanAndCached :
          /\ ~IsNone(StatFile(fs', ODGet(cache', d).abs_path))
          /\ HoldsContent(fs', d)
          /\ ContentAt(fs', ODGet(cache', d).abs_path) = ContentAt(fs', d)]_vars

----------------------------------------------------------------------------
(* C31 *)

\* how often the step started the intent for d
RunsOf(d) ==
    Cardinality({i \in 1..Len(events') : events'[i] \in {<<"run", d>>, <<"run failed", d>>}})

\* the step emits a record that could be read
Emitting == Walking /\ ~IsNone(StatFile(fs, Walked))

\* the intents queued when the step's flush begins, or when the emit ends
\* without one
QueuedAtFlush == IF Emitting THEN WalkedLoop.e.intents ELSE intents

\* C31: emit itself runs no intent and leaves the disk as it is; an intent
\* leaves the queue only by being run, once, in a flush, and none is run
\* that stays queued; an intent that an emit takes out of the queue is put
\* back, the same but for a source update_from adopted.
IntentLifecycle ==
    [][/\ Emitting => /\ WalkedLoop.e.fs = fs
                       /\ \A i \in 1..Len(WalkedLoop.e.events) :
                             WalkedLoop.e.events[i][1] \notin {"run", "run failed"}
                       /\ \A d \in ODKeys(intents) : ODHas(WalkedLoop.e.intents, d)
       /\ \A d \in ODKeys(QueuedAtFlush) :
             RunsOf(d) = IF ODHas(intents', d) THEN 0 ELSE 1
       /\ \A i \in 1..Len(events') :
             events'[i][1] \in {"run", "run failed"} => ODHas(QueuedAtFlush, events'[i][2])
       /\ Emitting => \A d \in ODKeys(intents) :
             /\ ODGet(WalkedLoop.e.intents, d).exists = ODGet(intents, d).exists
             /\ \/ ODGet(WalkedLoop.e.intents, d).source = ODGet(intents, d).source
                \/ /\ cargs.allow_updates
                   /\ ODGet(WalkedLoop.e.intents, d).source.abs_path = RealPath(fs, Walked, 4)]_vars

\* two emits targeted d, the second while the intent of the first was
\* queued, and the final flush ran that intent
IntentLifecycleWitness ==
    /\ pc = "done" /\ cargs.max_deferred > NFiles
    /\ \E d \in {events[i][2] : i \in 1..Len(events)} :
          /\ \E i \in 1..Len(events) : events[i] = <<"run", d>>
          /\ Cardinality({x \in placed : x.dest = d}) >= 2

----------------------------------------------------------------------------
(* C32 *)

\* the runs a history holds, failed ones included, in order
StartedIn(history) == SelectSeq(history, LAMBDA ev : ev[1] \in {"run", "run failed"})

\* an intent was queued for d1 before one was queued for d2: the first
\* record placed at d1 was emitted before every record placed at d2
QueuedBefore(d1, d2) ==
    \E x \in placed : /\ x.dest = d1 /\ ~x.noop
                      /\ \A y \in placed : y.dest = d2 /\ ~y.noop => EmittedBefore(x, y)

SeenAtFlush == IF Emitting THEN WalkedLoop.e.seen ELSE seen

\* the seen drain of the step's flush pops the key d and runs the intent
\* queued under it
SeenDrained(d) == ODHas(SeenAtFlush, d) /\ ~ODHas(seen', d)

\* the flush of the step executes the intent for d1 before the one for d2
DrainedBefore(d1, d2) ==
    IF SeenDrained(d1) /\ SeenDrained(d2)
    THEN ODIndex(SeenAtFlush, d1) < ODIndex(SeenAtFlush, d2)
    ELSE IF SeenDrained(d1) THEN TRUE
    ELSE IF SeenDrained(d2) THEN FALSE
    ELSE ODIndex(QueuedAtFlush, d1) < ODIndex(QueuedAtFlush, d2)

----------------------------------------------------------------------------
(* C33 *)

\* the emit of the step reaches its flush, and no budget is exceeded there
FlushesUnderBudget ==
    /\ Emitting /\ ~cargs.lazy /\ WalkedLoop.status = "ok"
    /\ Len(WalkedLoop.e.intents) <= cargs.max_deferred
    /\ Len(WalkedLoop.e.cache) <= cargs.max_cached
    /\ Len(WalkedLoop.e.seen) <= cargs.max_seen
    /\ WalkedLoop.e.mem <= cargs.max_memory * 1024 * 1024

\* C33: a flush that is not final and finds no budget exceeded runs no
\* intent, does no fsync and no unlink, reports nothing, and leaves the
\* disk, the seen counter, the intent queue, the source cache and
\* consumption as the emit left them.
EarlyReturn ==
    [][FlushesUnderBudget =>
          /\ raised' = "none"
          /\ events' = WalkedLoop.e.events
          /\ \A i \in 1..Len(events') :
                events'[i][1] \notin {"run", "run failed", "fsync", "report", "unlink"}
          /\ fs' = fs
          /\ dsync' = dsync
          /\ seen' = WalkedLoop.e.seen
          /\ intents' = WalkedLoop.e.intents
          /\ cache' = WalkedLoop.e.cache
          /\ mem' = WalkedLoop.e.mem
          /\ stdout' = IF IsNone(WalkedLoop.intent) /\ ~IsNone(cargs.terminator)
                        THEN Append(stdout, WalkedLoop.abs_out_path) ELSE stdout]_vars

\* an emit queued an intent and its flush returned with the queue, the
\* cache and the seen counter holding entries
EarlyReturnWitness ==
    /\ pc = "walk" /\ ~cargs.lazy /\ events = <<>>
    /\ intents # <<>> /\ cache # <<>> /\ seen # <<>> /\ mem > 0
    /\ Len(intents) <= cargs.max_deferred

----------------------------------------------------------------------------
(* C34 *)

\* d exists as a symlink that resolves while the action is not symlink, or
\* as something else than a symlink while the action is symlink
ActionClash(f, c, d) ==
    /\ Exists(f, d)
    /\ \/ f[d].kind = "link" /\ ~IsNone(StatFile(f, d)) /\ ~Symlinking(c)
       \/ f[d].kind # "link" /\ Symlinking(c)

\* the key the seen counter keeps for the walked record
WalkedPrefix == FormatOutput(cargs.destination, cargs.hasNum, WalkedData.key, 0)

\* the destinations the loop of the step's emit computes, one for each count
\* the seen counter hands out
Visited ==
    {AbsPath(FormatOutput(cargs.destination, cargs.hasNum, WalkedData.key, n)) :
        n \in (IF ODHas(seen, WalkedPrefix) THEN ODGet(seen, WalkedPrefix) + 1 ELSE 0)
                ..ODGet(WalkedLoop.e.seen, WalkedPrefix)}

\* the emit of the step ends at d with a Failure that is not the one of
\* variance_help, queues nothing for d and leaves the disk as it is
ClashRefused(d) ==
    /\ WalkedLoop.abs_out_path = d
    /\ WalkedLoop.status = "Failure"
    /\ \A i \in 1..Len(events') : events'[i][1] # "variance"
    /\ ~ODHas(intents', d)
    /\ fs' = fs

\* C34: an emit that reaches a destination which exists as a resolvable
\* symlink under another action than symlink, or as a non-symlink under
\* symlink, fails there, queues no intent for it and changes nothing on
\* disk.
CrossActionClash ==
    [][Emitting => \A d \in Visited : ActionClash(fs, cargs, d) => ClashRefused(d)]_vars

\* C34, amended: the same, unless the destination is the path at which the
\* emitted file lies itself; and no destination that clashes has an entry
\* in the source cache.
CrossActionClashElsewhere ==
    [][Emitting => \A d \in Visited :
          ActionClash(fs, cargs, d)
             => /\ ~ODHas(cache, d)
                /\ d # RealPath(fs, Walked, 4) => ClashRefused(d)]_vars

\* an emit under symlink failed at a destination that is a regular file,
\* without the variance hint
CrossActionClashWitness ==
    /\ pc = "walk" /\ Symlinking(cargs)
    /\ \E i \in 1..Len(events) :
          /\ events[i][1] = "emit failed"
          /\ Exists(fs, events[i][2]) /\ fs[events[i][2]].kind = "file"
    /\ \A i \in 1..Len(events) : events[i][1] # "variance"

----------------------------------------------------------------------------
(* C35 *)

\* d is a symlink whose target does not exist
Dangling(f, d) == Exists(f, d) /\ f[d].kind = "link" /\ IsNone(StatFile(f, d))

\* the emit of the step ends at d with a permitted replace intent for the
\* walked file
ReplaceQueued(d) ==
    /\ WalkedLoop.abs_out_path = d
    /\ WalkedLoop.status = "ok" /\ WalkedLoop.permitted
    /\ ODHas(WalkedLoop.e.intents, d)
    /\ ODGet(WalkedLoop.e.intents, d).exists
    /\ ODGet(WalkedLoop.e.intents, d).source.abs_path = RealPath(fs, Walked, 4)

\* C35: under keep, an emit that reaches a dangling symlink for which no
\* intent is queued gets a permitted replace intent for its source, for
\* every action; an emit that reaches a destination which holds other
\* bytes than its record is not permitted there.
ReplaceOnlyDangling ==
    [][Emitting /\ Keeping => \A d \in Visited :
          /\ Dangling(fs, d) /\ ~ODHas(intents, d) => ReplaceQueued(d)
          /\ HoldsContent(fs, d) /\ ContentAt(fs, d).body # WalkedData.body
                => ~(WalkedLoop.abs_out_path = d /\ WalkedLoop.status = "ok")]_vars

----------------------------------------------------------------------------
(* C36 *)

\* the last pop of key before call i of the history, or 0
LastPop(history, i, key) ==
    IF \E j \in 1..(i - 1) : history[j] = <<"pop", key>>
    THEN CHOOSE j \in 1..(i - 1) :
            /\ history[j] = <<"pop", key>>
            /\ \A l \in (j + 1)..(i - 1) : history[l] # <<"pop", key>>
    ELSE 0

\* the calls count(key) among the first i calls since key was last popped
CountsSince(history, i, key) ==
    {j \in (LastPop(history, i + 1, key) + 1)..i :
        history[j][1] = "count" /\ history[j][2] = key}

\* the keys the counter holds before call i, and the call that inserted each
HeldBefore(history, i) == {key \in SeenKeys : CountsSince(history, i - 1, key) # {}}
InsertedAt(history, i, key) ==
    CHOOSE j \in CountsSince(history, i - 1, key) :
        \A l \in CountsSince(history, i - 1, key) : j <= l

\* the lengths of the keys of a set, in some order
RECURSIVE LengthsOf(_)
LengthsOf(keys) ==
    IF keys = {} THEN <<>>
    ELSE <<PathLen(CHOOSE key \in keys : TRUE)>>
         \o LengthsOf(keys \ {CHOOSE key \in keys : TRUE})

\* C36: the n-th count(key) since key was last inserted returns n - 1; pop
\* returns the key that was inserted earliest of those held, however often
\* the others were counted since; a popped key counts from 0 again; and
\* consumption holds len(key) once for every key held.
SeenCounterContract ==
    /\ \A i \in 1..Len(events) :
          /\ events[i][1] = "count" =>
                events[i][3] = Cardinality(CountsSince(events, i, events[i][2])) - 1
          /\ events[i][1] = "pop" =>
                /\ events[i][2] \in HeldBefore(events, i)
                /\ \A key \in HeldBefore(events, i) :
                      InsertedAt(events, i, events[i][2]) <= InsertedAt(events, i, key)
    /\ ODKeys(seen) = HeldBefore(events, Len(events) + 1)
    /\ mem = SumOf(LengthsOf(HeldBefore(events, Len(events) + 1)))

\* a key was counted again after a later key came in, was popped first all
\* the same, and then counted from 0
SeenCounterWitness ==
    \E i, j, l \in 1..Len(events) :
        /\ i < j /\ j < l
        /\ events[i][1] = "count" /\ events[i][3] = 1
        /\ events[j] = <<"pop", events[i][2]>>
        /\ events[l] = <<"count", events[i][2], 0>>
        /\ \E key \in HeldBefore(events, i) : key # events[i][2]
        /\ mem > 0

----------------------------------------------------------------------------
(* C37 *)

\* what the entries of a queue are charged: the size of each (sizes) and the
\* length of the path it is queued under
Charged(od, sizes) == SumOf([i \in 1..Len(od) |-> sizes[i] + PathLen(od[i].k)])

\* the last handler returned by a Failure: for lack of variance, or because
\* an intent failed
FailedReturn ==
    \E i \in 1..Len(events) : events[i][1] \in {"variance", "run failed"}

\* C37: whenever emit, flush or finish_updates has returned, by a Failure
\* too, consumption is not negative and is the lengths of the seen keys plus
\* approx_size and destination length of every queued intent and of every
\* cached source.
AccountingSurvivesFailure ==
    /\ mem >= 0
    /\ mem = SumOf([i \in 1..Len(seen) |-> PathLen(seen[i].k)])
             + Charged(intents, [i \in 1..Len(intents) |-> IntentApproxSize(intents[i].v)])
             + Charged(cache, [i \in 1..Len(cache) |-> SourceApproxSize(cache[i].v)])

\* an emit failed for lack of variance with keys in the seen counter and a
\* source cached
AccountingWitness ==
    /\ \E i \in 1..Len(events) : events[i][1] = "variance"
    /\ cache # <<>> /\ seen # <<>>
    /\ mem > 0

----------------------------------------------------------------------------
(* C38 *)

\* C38: the loop of an emit never ends with an OSError: the file update_from
\* opens to compare content, named by the source of the queued intent or of
\* the cached entry of the destination, exists.
EmitOpensExistingFiles ==
    [][Emitting => WalkedLoop.status # "OSError" /\ raised' # "OSError"]_vars

----------------------------------------------------------------------------
(* C39 *)

\* no intent of a queue names its own destination as its source
SourcesElsewhere(queue) ==
    \A i \in 1..Len(queue) : queue[i].v.source.abs_path # queue[i].k

\* C39: the assertion of run holds for every intent it can be called on: an
\* intent never has the destination it is queued under as the path of its
\* source, neither as the loop of an emit leaves the queue, update_from
\* having adopted the emitted source or not, nor as a handler returns.
RunAssertionHolds ==
    [][/\ SourcesElsewhere(intents')
       /\ Emitting => SourcesElsewhere(WalkedLoop.e.intents)]_vars

\* under --latest an input that lies at its destination was emitted, and an
\* intent is queued whose source update_from adopted from a newer record
\* emitted later
RunAssertionWitness ==
    /\ cargs.allow_updates
    /\ \E z \in placed : z.dest = z.path
    /\ \E x, y \in placed :
          /\ x.dest = y.dest /\ x.path # y.path
          /\ x.data.stime < y.data.stime
          /\ PathBefore(y.path, x.path)
          /\ ODHas(intents, y.dest)
          /\ ODGet(intents, y.dest).source.abs_path = y.path

----------------------------------------------------------------------------
(* C40 *)

\* the rounds the loop of the step's emit makes: the counts the seen counter
\* hands out for the record's key
Rounds == CountOf(WalkedLoop.e.seen, WalkedPrefix) - CountOf(seen, WalkedPrefix)

\* C40: the loop of every emit ends, at a permitted destination or with a
\* Failure; with num in the template every round computes a destination of
\* its own, and there are no more rounds than files under the destination
\* and queued intents, and one; without num there are two rounds at most,
\* all at one destination, and the second one ends with the Failure.
RetryLoopEnds ==
    [][Emitting =>
          /\ WalkedLoop.status \in {"ok", "Failure"}
          /\ Rounds >= 1
          /\ cargs.hasNum =>
                /\ Cardinality(Visited) = Rounds
                /\ Rounds <= Cardinality({p \in DOMAIN fs : p[1] = "out"}) + Len(intents) + 1
          /\ ~cargs.hasNum =>
                /\ Rounds <= 2
                /\ Cardinality(Visited) = 1
                /\ Rounds = 2 => WalkedLoop.status = "Failure"]_vars

====
